---- MODULE Spec2Model ----
(***************************************************************************)
(* Verification development for the predictive-simulation driver           *)
(* (src/main.py) and its guess generators (src/guesses.py).                *)
(*                                                                         *)
(* Python arrays are modelled as functions over 0..n-1 so that indices are *)
(* the indices of the source; Python lists of names are sequences, and     *)
(* index(list, x) is the 0-based list.index(x).                            *)
(*                                                                         *)
(* Real magnitudes (residuals, speed errors) are integers counted in units *)
(* of 10^(-MaxTol), so 10^(-tol) is Pow10(MaxTol - tol) units and 10^(tol) *)
(* is Pow10(MaxTol + tol) units.                                           *)
(***************************************************************************)
EXTENDS Integers, Sequences, FiniteSets, TLC

(***************************************************************************)
(* Bounds of the model.                                                    *)
(***************************************************************************)
\* largest IPOPT tolerance exponent a case may configure
MaxTol == 1
\* largest number of mesh intervals a case may configure in the run model
MaxN == 1
\* largest number of cases processed in one run
MaxCases == 2

(***************************************************************************)
(* Generic helpers.                                                        *)
(***************************************************************************)
RECURSIVE Pow10(_)
Pow10(n) == IF n <= 0 THEN 1 ELSE 10 * Pow10(n - 1)

Abs(x) == IF x < 0 THEN -x ELSE x

Max(x, y) == IF x >= y THEN x ELSE y

Range(s) == {s[i] : i \in 1..Len(s)}

\* list.index(x): 0-based position of the first occurrence of x
index(list, x) == (CHOOSE i \in 1..Len(list) :
                     list[i] = x /\ \A h \in 1..(i - 1) : list[h] # x) - 1

\* list.remove(x) for every x of a set (each name occurs at most once)
RemoveAll(list, S) == SelectSeq(list, LAMBDA x : x \notin S)

(***************************************************************************)
(* Joints (src/main.py, section "Joints").                                 *)
(***************************************************************************)
allJoints ==
    << "pelvis_tilt", "pelvis_list", "pelvis_rotation",
       "pelvis_tx", "pelvis_ty", "pelvis_tz",
       "hip_flexion_l", "hip_adduction_l", "hip_rotation_l",
       "hip_flexion_r", "hip_adduction_r", "hip_rotation_r",
       "knee_angle_l", "knee_angle_r",
       "ankle_angle_l", "ankle_angle_r",
       "subtalar_angle_l", "subtalar_angle_r",
       "mtp_angle_l", "mtp_angle_r",
       "lumbar_extension", "lumbar_bending", "lumbar_rotation",
       "arm_flex_l", "arm_add_l", "arm_rot_l",
       "arm_flex_r", "arm_add_r", "arm_rot_r",
       "elbow_flex_l", "elbow_flex_r" >>

mtpJoints == << "mtp_angle_l", "mtp_angle_r" >>

\* the list 'joints' of a case: the mtp joints are removed when not withMTP
joints(withMTP) ==
    IF withMTP THEN allJoints ELSE RemoveAll(allJoints, Range(mtpJoints))

nJoints(withMTP) == Len(joints(withMTP))

\* utilities.getJointIndices(joints, selectedJoints): positions of the
\* selected joints in the joint list, in the order of the selection
getJointIndices(jointList, selected) ==
    [i \in 1..Len(selected) |-> index(jointList, selected[i])]

rotationalJoints(withMTP) ==
    RemoveAll(joints(withMTP), {"pelvis_tx", "pelvis_ty", "pelvis_tz"})

idxRotJoints(withMTP) ==
    getJointIndices(joints(withMTP), rotationalJoints(withMTP))

periodicQsJointsA(withMTP) ==
    LET full == << "pelvis_tilt", "pelvis_ty",
                   "hip_flexion_l", "hip_adduction_l", "hip_rotation_l",
                   "hip_flexion_r", "hip_adduction_r", "hip_rotation_r",
                   "knee_angle_l", "knee_angle_r",
                   "ankle_angle_l", "ankle_angle_r",
                   "subtalar_angle_l", "subtalar_angle_r",
                   "mtp_angle_l", "mtp_angle_r",
                   "lumbar_extension",
                   "arm_flex_l", "arm_add_l", "arm_rot_l",
                   "arm_flex_r", "arm_add_r", "arm_rot_r",
                   "elbow_flex_l", "elbow_flex_r" >>
    IN  IF withMTP THEN full ELSE RemoveAll(full, Range(mtpJoints))

idxPerQsJointsA(withMTP) ==
    getJointIndices(joints(withMTP), periodicQsJointsA(withMTP))

periodicQsJointsB(withMTP) ==
    LET full == << "pelvis_tilt", "pelvis_ty",
                   "hip_flexion_r", "hip_adduction_r", "hip_rotation_r",
                   "hip_flexion_l", "hip_adduction_l", "hip_rotation_l",
                   "knee_angle_r", "knee_angle_l",
                   "ankle_angle_r", "ankle_angle_l",
                   "subtalar_angle_r", "subtalar_angle_l",
                   "mtp_angle_r", "mtp_angle_l",
                   "lumbar_extension",
                   "arm_flex_r", "arm_add_r", "arm_rot_r",
                   "arm_flex_l", "arm_add_l", "arm_rot_l",
                   "elbow_flex_r", "elbow_flex_l" >>
    IN  IF withMTP THEN full ELSE RemoveAll(full, Range(mtpJoints))

idxPerQsJointsB(withMTP) ==
    getJointIndices(joints(withMTP), periodicQsJointsB(withMTP))

periodicQdsJointsA(withMTP) ==
    LET full == << "pelvis_tilt", "pelvis_tx", "pelvis_ty",
                   "hip_flexion_l", "hip_adduction_l", "hip_rotation_l",
                   "hip_flexion_r", "hip_adduction_r", "hip_rotation_r",
                   "knee_angle_l", "knee_angle_r",
                   "ankle_angle_l", "ankle_angle_r",
                   "subtalar_angle_l", "subtalar_angle_r",
                   "mtp_angle_l", "mtp_angle_r",
                   "lumbar_extension",
                   "arm_flex_l", "arm_add_l", "arm_rot_l",
                   "arm_flex_r", "arm_add_r", "arm_rot_r",
                   "elbow_flex_l", "elbow_flex_r" >>
    IN  IF withMTP THEN full ELSE RemoveAll(full, Range(mtpJoints))

idxPerQdsJointsA(withMTP) ==
    getJointIndices(joints(withMTP), periodicQdsJointsA(withMTP))

periodicQdsJointsB(withMTP) ==
    LET full == << "pelvis_tilt", "pelvis_tx", "pelvis_ty",
                   "hip_flexion_r", "hip_adduction_r", "hip_rotation_r",
                   "hip_flexion_l", "hip_adduction_l", "hip_rotation_l",
                   "knee_angle_r", "knee_angle_l",
                   "ankle_angle_r", "ankle_angle_l",
                   "subtalar_angle_r", "subtalar_angle_l",
                   "mtp_angle_r", "mtp_angle_l",
                   "lumbar_extension",
                   "arm_flex_r", "arm_add_r", "arm_rot_r",
                   "arm_flex_l", "arm_add_l", "arm_rot_l",
                   "elbow_flex_r", "elbow_flex_l" >>
    IN  IF withMTP THEN full ELSE RemoveAll(full, Range(mtpJoints))

idxPerQdsJointsB(withMTP) ==
    getJointIndices(joints(withMTP), periodicQdsJointsB(withMTP))

periodicOppositeJoints ==
    << "pelvis_list", "pelvis_rotation", "pelvis_tz",
       "lumbar_bending", "lumbar_rotation" >>

idxPerOppJoints(withMTP) ==
    getJointIndices(joints(withMTP), periodicOppositeJoints)

armJoints ==
    << "arm_flex_l", "arm_add_l", "arm_rot_l",
       "arm_flex_r", "arm_add_r", "arm_rot_r",
       "elbow_flex_l", "elbow_flex_r" >>

nArmJoints == Len(armJoints)

periodicArmJoints ==
    << "arm_flex_r", "arm_add_r", "arm_rot_r",
       "arm_flex_l", "arm_add_l", "arm_rot_l",
       "elbow_flex_r", "elbow_flex_l" >>

idxPerArmJoints == getJointIndices(armJoints, periodicArmJoints)

(***************************************************************************)
(* Muscles (src/main.py, section "Muscles").                               *)
(***************************************************************************)
muscles ==
    << "glut_med1_r", "glut_med2_r", "glut_med3_r", "glut_min1_r",
       "glut_min2_r", "glut_min3_r", "semimem_r", "semiten_r", "bifemlh_r",
       "bifemsh_r", "sar_r", "add_long_r", "add_brev_r", "add_mag1_r",
       "add_mag2_r", "add_mag3_r", "tfl_r", "pect_r", "grac_r",
       "glut_max1_r", "glut_max2_r", "glut_max3_r", "iliacus_r", "psoas_r",
       "quad_fem_r", "gem_r", "peri_r", "rect_fem_r", "vas_med_r",
       "vas_int_r", "vas_lat_r", "med_gas_r", "lat_gas_r", "soleus_r",
       "tib_post_r", "flex_dig_r", "flex_hal_r", "tib_ant_r", "per_brev_r",
       "per_long_r", "per_tert_r", "ext_dig_r", "ext_hal_r", "ercspn_r",
       "intobl_r", "extobl_r", "ercspn_l", "intobl_l", "extobl_l" >>

\* muscles[:-3]
rightSideMuscles == SubSeq(muscles, 1, Len(muscles) - 3)

\* [muscle[:-1] + 'l' for muscle in rightSideMuscles]: every name of the
\* right side with its last character replaced by 'l'
leftSideMuscles ==
    << "glut_med1_l", "glut_med2_l", "glut_med3_l", "glut_min1_l",
       "glut_min2_l", "glut_min3_l", "semimem_l", "semiten_l", "bifemlh_l",
       "bifemsh_l", "sar_l", "add_long_l", "add_brev_l", "add_mag1_l",
       "add_mag2_l", "add_mag3_l", "tfl_l", "pect_l", "grac_l",
       "glut_max1_l", "glut_max2_l", "glut_max3_l", "iliacus_l", "psoas_l",
       "quad_fem_l", "gem_l", "peri_l", "rect_fem_l", "vas_med_l",
       "vas_int_l", "vas_lat_l", "med_gas_l", "lat_gas_l", "soleus_l",
       "tib_post_l", "flex_dig_l", "flex_hal_l", "tib_ant_l", "per_brev_l",
       "per_long_l", "per_tert_l", "ext_dig_l", "ext_hal_l", "ercspn_l",
       "intobl_l", "extobl_l" >>

\* leftSideMuscles + rightSideMuscles
bothSidesMuscles == leftSideMuscles \o rightSideMuscles

nSideMuscles == Len(rightSideMuscles)

nMuscles == 2 * nSideMuscles

\* list(range(nSideMuscles, nMuscles)) + list(range(0, nSideMuscles))
idxPerMuscles ==
    [i \in 1..nMuscles |->
        IF i <= nSideMuscles THEN nSideMuscles + (i - 1)
                             ELSE (i - 1) - nSideMuscles]

(***************************************************************************)
(* The run: one pass of the script over the list of cases.                 *)
(***************************************************************************)
VARIABLES
    pc,            \* position of the script inside the current iteration
    ci,            \* 1-based position of the current case in 'cases'
    cases,         \* the list of case identifiers of this run
    sw,            \* the high-level switches of the script
    platform,      \* platform.system()
    exports,       \* names of the classes the module guesses defines
    cfg,           \* settings of the current case after defaults
    guess,         \* the Python variable 'guess' (persists across cases)
    fam,           \* next decision-variable family to declare
    opti,          \* per family: initial value inside/outside its bounds
    mem,           \* the Python variables w_opt and stats
    disk,          \* per case: w_opt.npy and stats.npy in Results/Case_<c>
    motion,        \* cases whose motion.mot / GRF.mot exist on disk
    store,         \* optimaltrajectories.npy, keyed by case identifier
    wrote,         \* <<case, artifact>> written during this run
    solved,        \* cases for which the solver was invoked in this run
    warned,        \* cases for which the non-convergence warning was printed
    reconstructed, \* cases whose full gait cycle was reconstructed
    legIC,         \* leg label returned by heel-strike detection
    kGC,           \* gait-cycle samples the Hill loop has still to evaluate
    hillRes,       \* largest |hillEquilibriumk_GC| of the sample just evaluated
    abortAt        \* the statement that aborted the run ("" if none)

runVars == << pc, ci, cases, sw, platform, exports, cfg, guess, fam, opti,
              mem, disk, motion, store, wrote, solved, warned, reconstructed,
              legIC, kGC, hillRes, abortAt >>

(***************************************************************************)
(* The layout of the decision vector: declaration (lines 716-850) against  *)
(* extraction (lines 1224-1270).                                           *)
(***************************************************************************)
VARIABLES
    lpc,           \* position: declare, solve, extract, check, done, aborted
    dims,          \* nMuscles, nJoints, nArmJoints, N and d of the case
    lfam,          \* next family to declare or to extract
    optx,          \* opti.x: the declared decision variables, in order
    w_opt,         \* the solution vector handed to the extraction
    starti,        \* the running offset of the extraction
    xout           \* the extracted arrays, by name

layVars == << lpc, dims, lfam, optx, w_opt, starti, xout >>

(***************************************************************************)
(* The reconstruction of the full gait cycle (lines 1360-1452).            *)
(***************************************************************************)
VARIABLES
    gpc,           \* position: the next array to reconstruct
    gin,           \* N, d, withMTP, idxIC, legIC and the pelvis_tx solution
    Qs_GC,         \* joint positions over the gait cycle
    Qds_GC,        \* joint velocities
    Qdds_GC,       \* joint accelerations
    A_GC,          \* muscle activations
    F_GC,          \* tendon forces
    FDt_GC,        \* tendon force derivatives
    aArm_GC,       \* arm actuator activations
    finalTime_opt, \* the duration of the half gait cycle, once it is read
    tgrid_GC       \* the time grid of the gait cycle

gcVars == << gpc, gin, Qs_GC, Qds_GC, Qdds_GC, A_GC, F_GC, FDt_GC, aArm_GC,
             finalTime_opt, tgrid_GC >>

(***************************************************************************)
(* The objective of the transcription and its decomposition after the      *)
(* solve (lines 1003-1022, 1180-1190 and 1584-1739).                       *)
(***************************************************************************)
VARIABLES
    cpc,           \* position
    cin,           \* settings and solution the cost is computed from
    obj,           \* stats['iterations']['obj'][-1]
    terms_opt_all, \* the eight running totals of the decomposition
    ck,            \* mesh interval of the decomposition loop
    cj             \* collocation point of the decomposition loop

costVars == << cpc, cin, obj, terms_opt_all, ck, cj >>

(***************************************************************************)
(* The transcription: bounds of the joint positions (lines 629-637), the   *)
(* index lists of the external functions (lines 513-549), the              *)
(* torque-balance equations of f_coll (lines 1053-1083), the mapped call    *)
(* of f_coll (lines 1126-1133), and the continuity and periodicity         *)
(* constraints (lines 1144-1176).                                          *)
(***************************************************************************)
VARIABLES
    npc,           \* position of the transcription
    nin,           \* N, d, withMTP and the first-mesh-point bounds of pelvis_tx
    Fidx,          \* index lists into the outputs of the external functions
    lbQsk,         \* lower bounds of vec(Qs)
    ubQsk,         \* upper bounds of vec(Qs)
    lbQsj,         \* lower bounds of vec(Qs_col)
    ubQsj,         \* upper bounds of vec(Qs_col)
    eq_constr,     \* torque-balance entries of eq_constr inside f_coll
    nj,            \* collocation point, then mesh interval, of the running loop
    mapped,        \* per mesh interval: the columns every input of f_coll gets
    constr,        \* the continuity and periodicity constraints of opti
    running,       \* mesh intervals a thread of the map is evaluating
    outs,          \* output columns of the map written so far
    coll           \* the outputs of f_coll_map, as handed to the solver

nlpVars == << npc, nin, Fidx, lbQsk, ubQsk, lbQsj, ubQsj, eq_constr, nj, mapped,
              constr, running, outs, coll >>

\* the evaluation of the map
poolVars == << running, outs, coll >>

(***************************************************************************)
(* The quasi-random and data-driven guesses (guesses.py): the final time   *)
(* of both, and the joint positions and velocities of the quasi-random one *)
(* (those of the data-driven one are splines of experimental data).        *)
(* Numbers are exact fractions << numerator, denominator >>.               *)
(***************************************************************************)
VARIABLES
    qpc,            \* "idle", then the guess the driver asks for next, "done"
    qin,            \* class, N, d, joints, targetSpeed, scaling, reference motion
    guessFinalTime, \* self.guessFinalTime
    guessPosition,  \* self.guessPosition, a column per joint
    guessVelocity,  \* self.guessVelocity, a column per joint
    guessMesh,      \* the other guesses at the mesh points, by family
    guessCol        \* the guesses at the collocation points, by family

guessVars == << qpc, qin, guessFinalTime, guessPosition, guessVelocity,
                guessMesh, guessCol >>

(***************************************************************************)
(* The set-up of a case (src/main.py lines 57-465): the settings of one    *)
(* iteration after another, the tendon stiffness, the joint lists and the  *)
(* lists of the polynomial approximation.  The Python variables persist    *)
(* from one iteration of the loop to the next.                             *)
(***************************************************************************)
VARIABLES
    spc,             \* "idle", then the section the iteration is in
    scases,          \* the settings records of the cases of the run, in order
    si,              \* 1-based position of the current case
    conf,            \* the option variables of the script, by option name
    lists,           \* the joint lists of the script, by list name
    mainTendonStiffness, \* the array 'tendonStiffness' of main.py (line 209)
    polIdx           \* rightPolMuscleIdx and leftPolMuscleIdx

setupVars == << spc, scases, si, conf, lists, mainTendonStiffness, polIdx >>

\* the variables the run leaves alone
outsideRun == << layVars, gcVars, costVars, nlpVars, guessVars,
    setupVars >>

\* the variables the layout model leaves alone
outsideLay == << runVars, gcVars, costVars, nlpVars, guessVars,
    setupVars >>

\* the variables the gait-cycle model leaves alone
outsideGC == << runVars, layVars, costVars, nlpVars, guessVars,
    setupVars >>

\* the variables the cost model leaves alone
outsideCost == << runVars, layVars, gcVars, nlpVars, guessVars,
    setupVars >>

\* the variables the transcription model leaves alone
outsideNlp == << runVars, layVars, gcVars, costVars, guessVars,
    setupVars >>

\* the variables the guess model leaves alone
outsideGuess == << runVars, layVars, gcVars, costVars, nlpVars,
    setupVars >>

\* the variables the set-up model leaves alone
outsideSetup == << runVars, layVars, gcVars, costVars, nlpVars, guessVars >>

\* case identifiers: cases = [str(i) for i in range(42, 42 + n)]
CaseIds == {ToString(41 + i) : i \in 1..MaxCases}

\* a case recorded in the aggregate store by an earlier run only
OtherCase == "41"

StoreIds == CaseIds \cup {OtherCase}

\* guessType values: the two the driver tests for, and one of those used by
\* the shipped settings tables
GuessTypes == {"coldStart", "hotStart", "dataDriven"}

\* the opti variables in the order in which they are declared
Families ==
    << "finalTime", "a", "a_col", "normF", "normF_col", "Qs", "Qs_col",
       "Qds", "Qds_col", "aArm", "aArm_col", "aDt", "eArm",
       "normFDt_col", "Qdds_col" >>

\* nodes of a family compared in the guess-within-bounds model
GuessNodes == {0, 1}

\* values a scaled bound or guess entry may take
GVals == 0..2

NoCfg == [guessType |-> "unset", tol |-> 0]

NoResult == [origin |-> "none", case |-> "", success |-> FALSE, speedErr |-> 0]

\* w_opt.npy / stats.npy left in the case folder by an earlier run
OldResult(c) == [origin |-> "old", case |-> c, success |-> TRUE, speedErr |-> 0]

NoRecord == [origin |-> "none", success |-> FALSE, speedMissed |-> FALSE]

\* an entry of optimaltrajectories.npy left by an earlier run
OldRecord == [origin |-> "old", success |-> TRUE, speedMissed |-> FALSE]

\* 10^(-tol) in units of 10^(-MaxTol)
TenToMinus(tol) == Pow10(MaxTol - tol)

\* 10^(tol) in units of 10^(-MaxTol)
TenTo(tol) == Pow10(MaxTol + tol)

\* magnitudes a residual may take: zero, just above 10^(-tol), just above
\* 10^(tol)
ResVals(tol) == {0, TenToMinus(tol) + 1, TenTo(tol) + 1}

\* magnitudes |averageSpeed - targetSpeed| may take
SpeedVals(tol) == {TenToMinus(tol) - 1, TenToMinus(tol), TenToMinus(tol) + 1}

\* 1e-6 in units of 1e-7
CostTol == 10

CostDiffVals == {0, CostTol, CostTol + 1}

\* lines 36-46: the switches as shipped (all on), and with one group of
\* them turned off
AllOn == [solveProblem |-> TRUE, saveResults |-> TRUE,
          analyzeResults |-> TRUE, loadResults |-> TRUE,
          writeMotionFiles |-> TRUE, saveOptimalTrajectories |-> TRUE]

SwitchSettings ==
    { AllOn,
      [AllOn EXCEPT !.solveProblem = FALSE],
      [AllOn EXCEPT !.analyzeResults = FALSE],
      [AllOn EXCEPT !.saveResults = FALSE, !.loadResults = FALSE],
      [AllOn EXCEPT !.saveResults = FALSE],
      [AllOn EXCEPT !.loadResults = FALSE],
      [AllOn EXCEPT !.solveProblem = FALSE, !.loadResults = FALSE],
      [AllOn EXCEPT !.writeMotionFiles = FALSE,
                    !.saveOptimalTrajectories = FALSE] }

\* the classes of the module guesses: as defined in guesses.py, and as a
\* module that defines the two generators under the names the driver imports
GuessModules ==
    { {"quasiRandomGuess", "dataDrivenGuess", "contactParameterGuess"},
      {"coldStart", "hotStart"} }

cur == cases[ci]

Abort(why) ==
    /\ pc' = "aborted"
    /\ abortAt' = why

RunInit ==
    /\ pc = "settings"
    /\ ci = 1
    /\ \E n \in 1..MaxCases : cases = [i \in 1..n |-> ToString(41 + i)]
    /\ sw \in SwitchSettings
    /\ platform \in {"Windows", "Linux"}
    /\ exports \in GuessModules
    /\ cfg = NoCfg
    /\ guess = "undefined"
    /\ fam = 1
    /\ opti = [f \in Range(Families) |-> "undeclared"]
    /\ mem = NoResult
    /\ \E prior \in BOOLEAN :
         /\ disk = [c \in CaseIds |-> IF prior THEN OldResult(c) ELSE NoResult]
         /\ motion = IF prior THEN CaseIds ELSE {}
         /\ store = [c \in StoreIds |->
                       IF prior /\ c \in {OtherCase, "42"} THEN OldRecord
                                                            ELSE NoRecord]
    /\ wrote = {}
    /\ solved = {}
    /\ warned = {}
    /\ reconstructed = {}
    /\ legIC = "unset"
    /\ kGC = 0
    /\ hillRes = 0
    /\ abortAt = ""

\* lines 57-141: the settings of the case, each option with its default;
\* settings[case]['modelMass'] has no default. Of the settings, the run
\* model keeps guessType and tol; withMTP and N are drawn where the run
\* depends on them (CheckTorques, Reconstruct).
ReadSettings ==
    /\ pc = "settings"
    /\ \E gt \in GuessTypes, t \in 1..MaxTol, hasModelMass \in BOOLEAN :
         /\ cfg' = [guessType |-> gt, tol |-> t]
         /\ IF hasModelMass
              THEN pc' = "external" /\ abortAt' = abortAt
              ELSE Abort("modelMass")
    /\ UNCHANGED << ci, cases, sw, platform,
                    exports, guess, fam, opti, mem, disk,
                    motion, store, wrote, solved, warned, reconstructed,
                    legIC, kGC, hillRes >>
    /\ UNCHANGED outsideRun

\* lines 491-506: the external function exists for Windows and macOS only
LoadExternalFunction ==
    /\ pc = "external"
    /\ IF platform \in {"Windows", "Darwin"}
         THEN pc' = "guess" /\ abortAt' = abortAt
         ELSE Abort("platform")
    /\ UNCHANGED << ci, cases, sw, platform,
                    exports, cfg, guess, fam, opti, mem,
                    disk, motion, store, wrote, solved, warned,
                    reconstructed, legIC, kGC, hillRes >>
    /\ UNCHANGED outsideRun

\* lines 672-680: the guess object selected by guessType; for any other
\* value the variable 'guess' keeps what an earlier case left in it
SelectGuess(gt, old) ==
    IF gt = "coldStart" THEN "coldStart"
    ELSE IF gt = "hotStart" THEN "hotStart"
    ELSE old

\* lines 674 and 677: "from guesses import <guessType>" raises when the
\* module defines no class of that name
ImportFails(gt, defined) == gt \in {"coldStart", "hotStart"} /\ gt \notin defined

\* lines 672-708: build the guess and read it (line 683), then enter the
\* formulation or skip it
BuildGuess ==
    /\ pc = "guess"
    /\ guess' = IF ImportFails(cfg.guessType, exports)
                  THEN guess
                  ELSE SelectGuess(cfg.guessType, guess)
    /\ IF ImportFails(cfg.guessType, exports)
         THEN Abort("import")
         ELSE IF guess' = "undefined"
         THEN Abort("guessUndefined")
         ELSE /\ abortAt' = abortAt
              /\ pc' = IF sw.solveProblem THEN "declare"
                       ELSE IF sw.analyzeResults THEN "load" ELSE "nextcase"
    /\ fam' = 1
    /\ opti' = [f \in Range(Families) |-> "undeclared"]
    /\ UNCHANGED << ci, cases, sw, platform,
                    exports, cfg, mem, disk, motion, store,
                    wrote, solved, warned, reconstructed, legIC, kGC,
                    hillRes >>
    /\ UNCHANGED outsideRun

\* variant: the upper bound is not asserted
AssertWithin_lowerOnly(lb, g, ub) ==
    \A n \in DOMAIN g : lb <= g[n]

\* the pair of assertions of one family:
\* assert np.all(lb <= g) ; assert np.all(ub >= g)
AssertWithin(lb, g, ub) ==
    /\ \A n \in DOMAIN g : lb <= g[n]
    /\ \A n \in DOMAIN g : ub >= g[n]

\* variant: the assertions of the last declared family are missing
GuessChecksPass_lastUnchecked(f, guessType, lb, g, ub) ==
    IF (f \in {"Qs", "Qs_col"} /\ guessType = "coldStart") \/ f = "Qdds_col"
      THEN TRUE
      ELSE AssertWithin(lb, g, ub)

\* lines 716-850: the assertions of a family pass; those of the joint
\* positions are guarded by "if not guessType == 'coldStart'"
GuessChecksPass(f, guessType, lb, g, ub) ==
    IF f \in {"Qs", "Qs_col"} /\ guessType = "coldStart"
      THEN TRUE
      ELSE AssertWithin(lb, g, ub)

\* lines 716-850: declare one family with its bounds and initial value
Declare ==
    /\ pc = "declare"
    /\ \E lb \in GVals, ub \in GVals, g \in [GuessNodes -> GVals] :
         LET f == Families[fam]
             inside == \A n \in DOMAIN g : lb <= g[n] /\ g[n] <= ub
         IN  /\ lb <= ub
             /\ opti' = [opti EXCEPT
                           ![f] = IF inside THEN "inside" ELSE "outside"]
             /\ IF GuessChecksPass(f, cfg.guessType, lb, g, ub)
                  THEN /\ abortAt' = abortAt
                       /\ IF fam < Len(Families)
                            THEN fam' = fam + 1 /\ pc' = pc
                            ELSE fam' = fam /\ pc' = "solve"
                  ELSE Abort("guessBounds") /\ fam' = fam
    /\ UNCHANGED << ci, cases, sw, platform,
                    exports, cfg, guess, mem, disk, motion,
                    store, wrote, solved, warned, reconstructed, legIC, kGC,
                    hillRes >>
    /\ UNCHANGED outsideRun

\* line 1200: w_opt, stats = solve_with_bounds(opti, tol)
Solve ==
    /\ pc = "solve"
    /\ \E ok \in BOOLEAN, err \in SpeedVals(cfg.tol) :
         mem' = [origin |-> "fresh", case |-> cur,
                 success |-> ok, speedErr |-> err]
    /\ solved' = solved \cup {cur}
    /\ pc' = "save"
    /\ UNCHANGED << ci, cases, sw, platform,
                    exports, cfg, guess, fam, opti, disk,
                    motion, store, wrote, warned, reconstructed, legIC, kGC,
                    hillRes, abortAt >>
    /\ UNCHANGED outsideRun

\* lines 1204-1209: save w_opt and stats, then analyse or go to the next case
SaveResults ==
    /\ pc = "save"
    /\ IF sw.saveResults
         THEN /\ disk' = [disk EXCEPT ![cur] = mem]
              /\ wrote' = wrote \cup {<< cur, "w_opt" >>, << cur, "stats" >>}
         ELSE UNCHANGED << disk, wrote >>
    /\ pc' = IF sw.analyzeResults THEN "load" ELSE "nextcase"
    /\ UNCHANGED << ci, cases, sw, platform,
                    exports, cfg, guess, fam, opti, mem,
                    motion, store, solved, warned, reconstructed, legIC, kGC,
                    hillRes, abortAt >>
    /\ UNCHANGED outsideRun

\* lines 1210-1218: load w_opt and stats when asked, then warn if the solver
\* did not report success
LoadResults ==
    /\ pc = "load"
    /\ LET loaded == IF sw.loadResults THEN disk[cur] ELSE mem
       IN  IF loaded.origin = "none"
             THEN Abort("load") /\ UNCHANGED << mem, warned >>
             ELSE /\ mem' = loaded
                  /\ warned' = IF loaded.success THEN warned
                               ELSE warned \cup {cur}
                  /\ pc' = "extract"
                  /\ abortAt' = abortAt
    /\ UNCHANGED << ci, cases, sw, platform,
                    exports, cfg, guess, fam, opti, disk,
                    motion, store, wrote, solved, reconstructed, legIC, kGC,
                    hillRes >>
    /\ UNCHANGED outsideRun

\* lines 1224-1270: split w_opt. The vector returned by the solver has the
\* declared length; one loaded from an earlier run may be of another mesh.
ExtractResults ==
    /\ pc = "extract"
    /\ \E fits \in BOOLEAN :
         /\ (mem.origin = "fresh") => fits
         /\ IF fits
              THEN pc' = "speed" /\ abortAt' = abortAt
              ELSE Abort("extract")
    /\ UNCHANGED << ci, cases, sw, platform,
                    exports, cfg, guess, fam, opti, mem,
                    disk, motion, store, wrote, solved, warned,
                    reconstructed, legIC, kGC, hillRes >>
    /\ UNCHANGED outsideRun

\* variant: the comparison is not strict
SpeedOK_notStrict(err, tol) == err <= TenToMinus(tol)

\* line 1294: np.abs(averageSpeed - targetSpeed) < 10**(-tol)
SpeedOK(err, tol) == err < TenToMinus(tol)

\* lines 1290-1295: sanity check of the target speed
CheckSpeed ==
    /\ pc = "speed"
    /\ IF SpeedOK(mem.speedErr, cfg.tol)
         THEN pc' = "torque" /\ abortAt' = abortAt
         ELSE Abort("speed")
    /\ UNCHANGED << ci, cases, sw, platform,
                    exports, cfg, guess, fam, opti, mem,
                    disk, motion, store, wrote, solved, warned,
                    reconstructed, legIC, kGC, hillRes >>
    /\ UNCHANGED outsideRun

\* lines 1354-1358: np.all(np.abs(T) < 10**(-tol))
TorqueOK(res, tol) == res < TenToMinus(tol)

\* lines 1301-1358: arm and mtp torque balances at the mesh points
CheckTorques ==
    /\ pc = "torque"
    /\ \E withMTP \in BOOLEAN,
          armT \in ResVals(cfg.tol), mtpT \in ResVals(cfg.tol) :
         IF ~TorqueOK(armT, cfg.tol) THEN Abort("arm")
         ELSE IF withMTP /\ ~TorqueOK(mtpT, cfg.tol) THEN Abort("mtp")
         ELSE pc' = "heelstrike" /\ abortAt' = abortAt
    /\ UNCHANGED << ci, cases, sw, platform,
                    exports, cfg, guess, fam, opti, mem,
                    disk, motion, store, wrote, solved, warned,
                    reconstructed, legIC, kGC, hillRes >>
    /\ UNCHANGED outsideRun

\* utilities.getIdxIC_3D: the leg that initiates contact
LegLabels == {"right", "left", "undefined"}

\* lines 1361-1367: heel-strike detection; an undefined leg is displayed
\* ("Problem with gait reconstruction") and the script goes on
HeelStrike ==
    /\ pc = "heelstrike"
    /\ \E leg \in LegLabels : legIC' = leg
    /\ pc' = "reconstruct"
    /\ UNCHANGED << ci, cases, sw, platform,
                    exports, cfg, guess, fam, opti, mem,
                    disk, motion, store, wrote, solved, warned,
                    reconstructed, kGC, hillRes, abortAt >>
    /\ UNCHANGED outsideRun

\* lines 1369-1478: reconstruct the full gait cycle of 2N samples
Reconstruct ==
    /\ pc = "reconstruct"
    /\ reconstructed' = reconstructed \cup {cur}
    /\ \E N \in 1..MaxN : kGC' = 2 * N
    /\ hillRes' = 0
    /\ pc' = "hill"
    /\ UNCHANGED << ci, cases, sw, platform,
                    exports, cfg, guess, fam, opti, mem,
                    disk, motion, store, wrote, solved, warned, legIC,
                    abortAt >>
    /\ UNCHANGED outsideRun

\* line 1506: np.all(np.abs(hillEquilibriumk_GC.full()) <= 10**(tol))
HillOK(res, tol) == res <= TenTo(tol)

\* lines 1479-1542: one sample of the loop over the 2N gait-cycle samples,
\* of which kGC are still to be evaluated
HillSample ==
    /\ pc = "hill"
    /\ \E res \in ResVals(cfg.tol) :
         /\ hillRes' = res
         /\ IF mem.success /\ ~HillOK(res, cfg.tol)
              THEN Abort("hill") /\ kGC' = kGC
              ELSE /\ abortAt' = abortAt
                   /\ kGC' = kGC - 1
                   /\ pc' = IF kGC - 1 > 0 THEN pc ELSE "decompose"
    /\ UNCHANGED << ci, cases, sw, platform,
                    exports, cfg, guess, fam, opti, mem,
                    disk, motion, store, wrote, solved, warned,
                    reconstructed, legIC >>
    /\ UNCHANGED outsideRun

\* line 1738: np.abs(JAll_opt - stats['iterations']['obj'][-1]) <= 1e-6
CostOK(diff) == diff <= CostTol

\* lines 1544-1739: metrics, then the cost decomposition and its check
Decompose ==
    /\ pc = "decompose"
    /\ \E diff \in CostDiffVals :
         IF mem.success /\ ~CostOK(diff)
           THEN Abort("cost")
           ELSE pc' = "motion" /\ abortAt' = abortAt
    /\ UNCHANGED << ci, cases, sw, platform,
                    exports, cfg, guess, fam, opti, mem,
                    disk, motion, store, wrote, solved, warned,
                    reconstructed, legIC, kGC, hillRes >>
    /\ UNCHANGED outsideRun

\* lines 1741-1786: motion.mot and GRF.mot
WriteMotionFiles ==
    /\ pc = "motion"
    /\ IF sw.writeMotionFiles
         THEN /\ motion' = motion \cup {cur}
              /\ wrote' = wrote \cup {<< cur, "motion" >>}
         ELSE UNCHANGED << motion, wrote >>
    /\ pc' = "store"
    /\ UNCHANGED << ci, cases, sw, platform,
                    exports, cfg, guess, fam, opti, mem,
                    disk, store, solved, warned, reconstructed, legIC, kGC,
                    hillRes, abortAt >>
    /\ UNCHANGED outsideRun

\* variant: the store always starts empty
SaveOptimalTrajectories_fromEmpty ==
    /\ pc = "store"
    /\ IF sw.saveOptimalTrajectories
         THEN /\ store' = [c \in StoreIds |->
                             IF c = cur
                               THEN [origin |-> "run",
                                     success |-> mem.success,
                                     speedMissed |->
                                       mem.speedErr >= TenToMinus(cfg.tol)]
                               ELSE NoRecord]
              /\ wrote' = wrote \cup {<< cur, "trajectories" >>}
         ELSE UNCHANGED << store, wrote >>
    /\ pc' = "nextcase"
    /\ UNCHANGED << ci, cases, sw, platform,
                    exports, cfg, guess, fam, opti, mem,
                    disk, motion, solved, warned, reconstructed, legIC, kGC,
                    hillRes, abortAt >>
    /\ UNCHANGED outsideRun

\* lines 1788-1823: load the aggregate store, set the entry of the case,
\* write the store back
SaveOptimalTrajectories ==
    /\ pc = "store"
    /\ IF sw.saveOptimalTrajectories
         THEN /\ store' = [store EXCEPT
                             ![cur] = [origin |-> "run",
                                       success |-> mem.success,
                                       speedMissed |->
                                         mem.speedErr >= TenToMinus(cfg.tol)]]
              /\ wrote' = wrote \cup {<< cur, "trajectories" >>}
         ELSE UNCHANGED << store, wrote >>
    /\ pc' = "nextcase"
    /\ UNCHANGED << ci, cases, sw, platform,
                    exports, cfg, guess, fam, opti, mem,
                    disk, motion, solved, warned, reconstructed, legIC, kGC,
                    hillRes, abortAt >>
    /\ UNCHANGED outsideRun

\* variant: the loop stays on the same case
NextCase_sameCase ==
    /\ pc = "nextcase"
    /\ IF ci < Len(cases)
         THEN ci' = ci /\ pc' = "settings"
         ELSE ci' = ci /\ pc' = "done"
    /\ cfg' = NoCfg
    /\ fam' = 1
    /\ opti' = [f \in Range(Families) |-> "undeclared"]
    /\ legIC' = "unset"
    /\ kGC' = 0
    /\ hillRes' = 0
    /\ UNCHANGED << cases, sw, platform,
                    exports, guess, mem, disk, motion, store,
                    wrote, solved, warned, reconstructed, abortAt >>
    /\ UNCHANGED outsideRun

\* line 57: for case in cases. The settings, the opti instance and the
\* analysis temporaries are all reassigned before they are read again.
NextCase ==
    /\ pc = "nextcase"
    /\ IF ci < Len(cases)
         THEN ci' = ci + 1 /\ pc' = "settings"
         ELSE ci' = ci /\ pc' = "done"
    /\ cfg' = NoCfg
    /\ fam' = 1
    /\ opti' = [f \in Range(Families) |-> "undeclared"]
    /\ legIC' = "unset"
    /\ kGC' = 0
    /\ hillRes' = 0
    /\ UNCHANGED << cases, sw, platform,
                    exports, guess, mem, disk, motion, store,
                    wrote, solved, warned, reconstructed, abortAt >>
    /\ UNCHANGED outsideRun

RunNext ==
    \/ ReadSettings
    \/ LoadExternalFunction
    \/ BuildGuess
    \/ Declare
    \/ Solve
    \/ SaveResults
    \/ LoadResults
    \/ ExtractResults
    \/ CheckSpeed
    \/ CheckTorques
    \/ HeelStrike
    \/ Reconstruct
    \/ HillSample
    \/ Decompose
    \/ WriteMotionFiles
    \/ SaveOptimalTrajectories
    \/ NextCase

(***************************************************************************)
(* Layout model.                                                           *)
(***************************************************************************)
\* largest muscle, joint and arm-joint counts of the layout model
MaxCount == 2
\* largest number of mesh intervals of the layout model
MaxMesh == 2
\* largest number of collocation points per interval of the layout model
MaxD == 2

NoDims == [nMuscles |-> 0, nJoints |-> 0, nArmJoints |-> 0, N |-> 0, d |-> 0]

\* the symbolic matrix of one opti.variable(rows, cols)
Sym(f, rows, cols) ==
    [r \in 0..(rows - 1) |-> [c \in 0..(cols - 1) |-> << f, r, c >>]]

\* ca.vec(M): the columns of M stacked, as a 1-based sequence
Vec(M, rows, cols) ==
    [i \in 1..(rows * cols) |-> M[(i - 1) % rows][(i - 1) \div rows]]

\* w[lo:hi] of Python, 0-based and clamped to the length of w
Slice(w, lo, hi) ==
    LET h == IF hi > Len(w) THEN Len(w) ELSE hi
    IN  IF lo >= h THEN << >> ELSE SubSeq(w, lo + 1, h)

\* np.reshape(v, (R, C)) followed by .T
ReshapeT(v, R, C) ==
    [j \in 0..(C - 1) |-> [i \in 0..(R - 1) |-> v[i * C + j + 1]]]

\* lines 716-850: rows and columns of every opti.variable
DeclShape(f, dm) ==
    CASE f = "finalTime"   -> << 1, 1 >>
      [] f = "a"           -> << dm.nMuscles, dm.N + 1 >>
      [] f = "a_col"       -> << dm.nMuscles, dm.d * dm.N >>
      [] f = "normF"       -> << dm.nMuscles, dm.N + 1 >>
      [] f = "normF_col"   -> << dm.nMuscles, dm.d * dm.N >>
      [] f = "Qs"          -> << dm.nJoints, dm.N + 1 >>
      [] f = "Qs_col"      -> << dm.nJoints, dm.d * dm.N >>
      [] f = "Qds"         -> << dm.nJoints, dm.N + 1 >>
      [] f = "Qds_col"     -> << dm.nJoints, dm.d * dm.N >>
      [] f = "aArm"        -> << dm.nArmJoints, dm.N + 1 >>
      [] f = "aArm_col"    -> << dm.nArmJoints, dm.d * dm.N >>
      [] f = "aDt"         -> << dm.nMuscles, dm.N >>
      [] f = "eArm"        -> << dm.nArmJoints, dm.N >>
      [] f = "normFDt_col" -> << dm.nMuscles, dm.d * dm.N >>
      [] f = "Qdds_col"    -> << dm.nJoints, dm.d * dm.N >>

\* variant: the two controls are cut out in the other order
ExtractOrder_controlsSwapped ==
    << "finalTime", "a", "a_col", "normF", "normF_col", "Qs", "Qs_col",
       "Qds", "Qds_col", "aArm", "aArm_col", "eArm", "aDt",
       "normFDt_col", "Qdds_col" >>

\* lines 1224-1268: the arrays in the order in which they are cut out
ExtractOrder ==
    << "finalTime", "a", "a_col", "normF", "normF_col", "Qs", "Qs_col",
       "Qds", "Qds_col", "aArm", "aArm_col", "aDt", "eArm",
       "normFDt_col", "Qdds_col" >>

\* lines 1224-1268: the reshape of every array, (nodes, variables)
ExtractShape(f, dm) ==
    CASE f = "finalTime"   -> << 1, 1 >>
      [] f = "a"           -> << dm.N + 1, dm.nMuscles >>
      [] f = "a_col"       -> << dm.d * dm.N, dm.nMuscles >>
      [] f = "normF"       -> << dm.N + 1, dm.nMuscles >>
      [] f = "normF_col"   -> << dm.d * dm.N, dm.nMuscles >>
      [] f = "Qs"          -> << dm.N + 1, dm.nJoints >>
      [] f = "Qs_col"      -> << dm.d * dm.N, dm.nJoints >>
      [] f = "Qds"         -> << dm.N + 1, dm.nJoints >>
      [] f = "Qds_col"     -> << dm.d * dm.N, dm.nJoints >>
      [] f = "aArm"        -> << dm.N + 1, dm.nArmJoints >>
      [] f = "aArm_col"    -> << dm.d * dm.N, dm.nArmJoints >>
      [] f = "aDt"         -> << dm.N, dm.nMuscles >>
      [] f = "eArm"        -> << dm.N, dm.nArmJoints >>
      [] f = "normFDt_col" -> << dm.d * dm.N, dm.nMuscles >>
      [] f = "Qdds_col"    -> << dm.d * dm.N, dm.nJoints >>

LayInit ==
    /\ lpc = "declare"
    /\ dims \in [nMuscles : 1..MaxCount, nJoints : 1..MaxCount,
                 nArmJoints : 1..MaxCount, N : 1..MaxMesh, d : 1..MaxD]
    /\ lfam = 1
    /\ optx = << >>
    /\ w_opt = << >>
    /\ starti = 0
    /\ xout = << >>

\* the layout variables while another model runs
LayIdle ==
    /\ lpc = "idle"
    /\ dims = NoDims
    /\ lfam = 1
    /\ optx = << >>
    /\ w_opt = << >>
    /\ starti = 0
    /\ xout = << >>

\* lines 716-850: one opti.variable; opti.x grows by the vectorised variable
DeclareVariable ==
    /\ lpc = "declare"
    /\ LET f == Families[lfam]
           sh == DeclShape(f, dims)
       IN  optx' = optx \o Vec(Sym(f, sh[1], sh[2]), sh[1], sh[2])
    /\ IF lfam < Len(Families)
         THEN lfam' = lfam + 1 /\ lpc' = lpc
         ELSE lfam' = 1 /\ lpc' = "solve"
    /\ UNCHANGED << dims, w_opt, starti, xout >>
    /\ UNCHANGED outsideLay

\* line 1200: the solver returns the values of opti.x, entry by entry
SolveLayout ==
    /\ lpc = "solve"
    /\ w_opt' = optx
    /\ lpc' = "extract"
    /\ UNCHANGED << dims, lfam, optx, starti, xout >>
    /\ UNCHANGED outsideLay

\* lines 1210-1213: instead, a vector saved by an earlier run is loaded,
\* one entry shorter or longer than the declared one
LoadLayout ==
    /\ lpc = "solve"
    /\ \/ w_opt' = SubSeq(optx, 1, Len(optx) - 1)
       \/ w_opt' = Append(optx, << "stale", 0, 0 >>)
    /\ lpc' = "extract"
    /\ UNCHANGED << dims, lfam, optx, starti, xout >>
    /\ UNCHANGED outsideLay

\* lines 1224-1268: cut one array out of w_opt and advance starti; np.reshape
\* raises when the slice does not have the requested number of entries
ExtractFamily ==
    /\ lpc = "extract"
    /\ LET f == ExtractOrder[lfam]
           sh == ExtractShape(f, dims)
           sl == Slice(w_opt, starti, starti + sh[1] * sh[2])
       IN  IF Len(sl) # sh[1] * sh[2]
             THEN /\ lpc' = "aborted"
                  /\ UNCHANGED << lfam, starti, xout >>
             ELSE /\ xout' = [g \in DOMAIN xout \cup {f} |->
                                IF g = f THEN ReshapeT(sl, sh[1], sh[2])
                                         ELSE xout[g]]
                  /\ starti' = starti + sh[1] * sh[2]
                  /\ IF lfam < Len(ExtractOrder)
                       THEN lfam' = lfam + 1 /\ lpc' = lpc
                       ELSE lfam' = lfam /\ lpc' = "check"
    /\ UNCHANGED << dims, optx, w_opt >>
    /\ UNCHANGED outsideLay

\* line 1270: assert (starti == w_opt.shape[0])
CheckExtracted ==
    /\ lpc = "check"
    /\ lpc' = IF starti = Len(w_opt) THEN "done" ELSE "aborted"
    /\ UNCHANGED << dims, lfam, optx, w_opt, starti, xout >>
    /\ UNCHANGED outsideLay

LayNext ==
    \/ DeclareVariable
    \/ SolveLayout
    \/ LoadLayout
    \/ ExtractFamily
    \/ CheckExtracted

\* the run variables while another model runs
RunIdle ==
    /\ pc = "idle"
    /\ ci = 1
    /\ cases = << "42" >>
    /\ sw = AllOn
    /\ platform = "Windows"
    /\ exports = {}
    /\ cfg = NoCfg
    /\ guess = "undefined"
    /\ fam = 1
    /\ opti = [f \in Range(Families) |-> "undeclared"]
    /\ mem = NoResult
    /\ disk = [c \in CaseIds |-> NoResult]
    /\ motion = {}
    /\ store = [c \in StoreIds |-> NoRecord]
    /\ wrote = {}
    /\ solved = {}
    /\ warned = {}
    /\ reconstructed = {}
    /\ legIC = "unset"
    /\ kGC = 0
    /\ hillRes = 0
    /\ abortAt = ""

(***************************************************************************)
(* Gait-cycle model.                                                       *)
(***************************************************************************)
\* largest number of mesh intervals of the gait-cycle model
MaxNGC == 2

\* values the unscaled pelvis_tx solution may take at a mesh point
TxVals == 0..1

\* values the bounds admit for pelvis_tx at the first mesh point: the special
\* bound of lines 634-637 (lbQs0, ubQs0 of the bounds provider) pins it near
\* zero, here to zero or to the smallest non-zero value
Qs0_pelvis_tx == {v \in TxVals : v <= 1}

\* durations the solution may have, as fractions << numerator, denominator >>
FinalTimes == { << 1, 2 >>, << 3, 5 >> }

NoGin == [N |-> 0, d |-> 0, withMTP |-> FALSE, idxIC |-> 0,
          legIC |-> "unset", tx |-> << >>]

\* the value of entry (r, c) of a solution array: distinct and non-zero
Tag(r, c) == 100 * (r + 1) + c + 1

Min(x, y) == IF x <= y THEN x ELSE y

\* the half-open column range of the Python slice a:b on n columns
Cols(n, a, b) ==
    LET norm(i) == IF i < 0 THEN Max(n + i, 0) ELSE Min(i, n)
    IN  << norm(a), Max(norm(a), norm(b)) >>

AllRows(n) == [i \in 1..n |-> i - 1]

\* np.zeros((rows, cols))
Zeros(rows, cols) ==
    [ok |-> TRUE, v |-> [r \in 0..(rows - 1) |-> [c \in 0..(cols - 1) |-> 0]]]

\* G[rowsL, cl] = sgn * M[rowsR, cr] + add; numpy raises when the two sides
\* do not have the same shape, which clears the flag ok
SetBlock(G, rowsL, cl, M, rowsR, cr, sgn, add) ==
    LET fits == /\ cl[2] - cl[1] = cr[2] - cr[1]
                /\ Len(rowsL) = Len(rowsR)
    IN  [ok |-> G.ok /\ fits,
         v  |-> IF ~fits THEN G.v
                ELSE [r \in DOMAIN G.v |->
                        IF \E i \in DOMAIN rowsL : rowsL[i] = r
                          THEN LET i == CHOOSE h \in DOMAIN rowsL : rowsL[h] = r
                               IN  [c \in DOMAIN G.v[r] |->
                                      IF c >= cl[1] /\ c < cl[2]
                                        THEN sgn * M[rowsR[i]][cr[1] + (c - cl[1])]
                                             + add
                                        ELSE G.v[r][c]]
                          ELSE G.v[r]]]

\* variant: the offset of the row is left out
SetRow_noOffset(G, r, cl, M, cr, add) ==
    SetBlock(G, << r >>, cl, M, << r >>, cr, 1, 0)

\* G[r, cl] = M[r, cr] + add for one row
SetRow(G, r, cl, M, cr, add) ==
    SetBlock(G, << r >>, cl, M, << r >>, cr, 1, add)

\* G[rows, :] = G[rows, :] * factor
ScaleRows(G, rows, factor) ==
    [ok |-> G.ok,
     v  |-> [r \in DOMAIN G.v |->
               IF \E i \in DOMAIN rows : rows[i] = r
                 THEN [c \in DOMAIN G.v[r] |-> G.v[r][c] * factor]
                 ELSE G.v[r]]]

\* variant: the last sample is subtracted
SubtractFirst_last(G, r) ==
    LET last == Cardinality(DOMAIN G.v[r]) - 1
    IN  [ok |-> G.ok,
         v  |-> [G.v EXCEPT
                   ![r] = [c \in DOMAIN G.v[r] |-> G.v[r][c] - G.v[r][last]]]]

\* lines 1387-1388: Qs_GC[r, :] -= Qs_GC[r, 0]
SubtractFirst(G, r) ==
    [ok |-> G.ok,
     v  |-> [G.v EXCEPT ![r] = [c \in DOMAIN G.v[r] |-> G.v[r][c] - G.v[r][0]]]]

\* line 1366: idxIC_s = idxIC + 1, GRF_opt starts at mesh point k = 1
idxIC_s(idxIC) == idxIC + 1

\* variant: the derivative families are cut where the state families are
idxIC_c_asState(idxIC) == idxIC + 1

\* line 1367: idxIC_c = idxIC
idxIC_c(idxIC) == idxIC

\* the three column ranges of the gait cycle written by a family that is cut
\* at index s: post-heel-strike remainder, mirrored half, pre-heel-strike
\* remainder (the left-hand slices of lines 1371-1379)
Seg1Cols(N, s) == Cols(2 * N, 0, N - s)

\* variant: the mirrored half starts one column late
MirCols_late(N, s) == Cols(2 * N, N - s + 1, N - s + N)

MirCols(N, s) == Cols(2 * N, N - s, N - s + N)

Seg3Cols(N, s) == Cols(2 * N, N - s + N, 2 * N)

\* rotational rows are multiplied by 180/pi: the entries of those rows are
\* then counted in units of 1/pi degree
DegPerRadTimesPi == 180

\* the unscaled solution arrays handed to the reconstruction
Qs_opt_nsc(g) ==
    LET js == joints(g.withMTP)
    IN  [j \in 0..(Len(js) - 1) |->
           [k \in 0..g.N |->
              IF js[j + 1] = "pelvis_tx" THEN g.tx[k] ELSE Tag(j, k)]]

Qds_opt_nsc(g) ==
    [j \in 0..(nJoints(g.withMTP) - 1) |-> [k \in 0..g.N |-> Tag(j, k)]]

Qdds_col_opt_nsc(g) ==
    [j \in 0..(nJoints(g.withMTP) - 1) |->
       [c \in 0..(g.d * g.N - 1) |-> Tag(j, c)]]

\* line 1327: Qdds_opt = Qdds_col_opt_nsc[:, d-1::d]
LastCollocation(M, N, d) ==
    [r \in DOMAIN M |-> [k \in 0..(N - 1) |-> M[r][d - 1 + k * d]]]

a_opt(g) == [m \in 0..(nMuscles - 1) |-> [k \in 0..g.N |-> Tag(m, k)]]

normF_opt_nsc(g) == [m \in 0..(nMuscles - 1) |-> [k \in 0..g.N |-> Tag(m, k)]]

normFDt_col_opt_nsc(g) ==
    [m \in 0..(nMuscles - 1) |-> [c \in 0..(g.d * g.N - 1) |-> Tag(m, c)]]

aArm_opt_nsc(g) == [j \in 0..(nArmJoints - 1) |-> [k \in 0..g.N |-> Tag(j, k)]]

\* lines 1370-1389: joint positions
ReconstructedQs(g) ==
    LET N    == g.N
        s    == idxIC_s(g.idxIC)
        M    == Qs_opt_nsc(g)
        js   == joints(g.withMTP)
        nJ   == Len(js)
        tx   == index(js, "pelvis_tx")
        idxA == idxPerQsJointsA(g.withMTP)
        idxB == idxPerQsJointsB(g.withMTP)
        idxO == idxPerOppJoints(g.withMTP)
        all  == Cols(2 * N, 0, 2 * N)
        G0 == Zeros(nJ, 2 * N)
        G1 == SetBlock(G0, AllRows(nJ), Seg1Cols(N, s),
                       M, AllRows(nJ), Cols(N + 1, s, -1), 1, 0)
        G2 == SetBlock(G1, idxA, MirCols(N, s), M, idxB, Cols(N + 1, 0, -1), 1, 0)
        G3 == SetBlock(G2, idxO, MirCols(N, s), M, idxO, Cols(N + 1, 0, -1), -1, 0)
        G4 == SetRow(G3, tx, MirCols(N, s), M, Cols(N + 1, 0, -1), M[tx][N])
        G5 == SetBlock(G4, AllRows(nJ), Seg3Cols(N, s),
                       M, AllRows(nJ), Cols(N + 1, 0, s), 1, 0)
        G6 == SetRow(G5, tx, Seg3Cols(N, s), M, Cols(N + 1, 0, s), 2 * M[tx][N])
        G7 == IF g.legIC = "left"
                THEN LET H == SetBlock(G6, idxA, all, G6.v, idxB, all, 1, 0)
                     IN  SetBlock(H, idxO, all, H.v, idxO, all, -1, 0)
                ELSE G6
        G8 == SubtractFirst(G7, tx)
    IN  ScaleRows(G8, idxRotJoints(g.withMTP), DegPerRadTimesPi)

\* lines 1392-1404: the gait cycle of an array M of joint velocities at the
\* mesh points
ReconstructedVelocity(M, g) ==
    LET N    == g.N
        s    == idxIC_s(g.idxIC)
        nJ   == nJoints(g.withMTP)
        idxA == idxPerQdsJointsA(g.withMTP)
        idxB == idxPerQdsJointsB(g.withMTP)
        idxO == idxPerOppJoints(g.withMTP)
        all  == Cols(2 * N, 0, 2 * N)
        G0 == Zeros(nJ, 2 * N)
        G1 == SetBlock(G0, AllRows(nJ), Seg1Cols(N, s),
                       M, AllRows(nJ), Cols(N + 1, s, -1), 1, 0)
        G2 == SetBlock(G1, idxA, MirCols(N, s), M, idxB, Cols(N + 1, 0, -1), 1, 0)
        G3 == SetBlock(G2, idxO, MirCols(N, s), M, idxO, Cols(N + 1, 0, -1), -1, 0)
        G4 == SetBlock(G3, AllRows(nJ), Seg3Cols(N, s),
                       M, AllRows(nJ), Cols(N + 1, 0, s), 1, 0)
        G5 == IF g.legIC = "left"
                THEN LET H == SetBlock(G4, idxA, all, G4.v, idxB, all, 1, 0)
                     IN  SetBlock(H, idxO, all, H.v, idxO, all, -1, 0)
                ELSE G4
    IN  ScaleRows(G5, idxRotJoints(g.withMTP), DegPerRadTimesPi)

\* lines 1392-1404: joint velocities
ReconstructedQds(g) == ReconstructedVelocity(Qds_opt_nsc(g), g)

\* lines 1407-1417: joint accelerations, one value per mesh interval
ReconstructedQdds(g) ==
    LET N    == g.N
        c    == idxIC_c(g.idxIC)
        M    == LastCollocation(Qdds_col_opt_nsc(g), N, g.d)
        nJ   == nJoints(g.withMTP)
        idxA == idxPerQdsJointsA(g.withMTP)
        idxB == idxPerQdsJointsB(g.withMTP)
        idxO == idxPerOppJoints(g.withMTP)
        all  == Cols(2 * N, 0, 2 * N)
        G0 == Zeros(nJ, 2 * N)
        G1 == SetBlock(G0, AllRows(nJ), Seg1Cols(N, c),
                       M, AllRows(nJ), Cols(N, c, N), 1, 0)
        G2 == SetBlock(G1, idxA, MirCols(N, c), M, idxB, Cols(N, 0, N), 1, 0)
        G3 == SetBlock(G2, idxO, MirCols(N, c), M, idxO, Cols(N, 0, N), -1, 0)
        G4 == SetBlock(G3, AllRows(nJ), Seg3Cols(N, c),
                       M, AllRows(nJ), Cols(N, 0, c), 1, 0)
        G5 == IF g.legIC = "left"
                THEN LET H == SetBlock(G4, idxA, all, G4.v, idxB, all, 1, 0)
                     IN  SetBlock(H, idxO, all, H.v, idxO, all, -1, 0)
                ELSE G4
    IN  ScaleRows(G5, idxRotJoints(g.withMTP), DegPerRadTimesPi)

\* variant: the mirrored half is copied without the index permutation
ReconstructedState_unpermuted(M, N, s, idxPer, legLabel) ==
    LET n   == Len(idxPer)
        all == Cols(2 * N, 0, 2 * N)
        G0 == Zeros(n, 2 * N)
        G1 == SetBlock(G0, AllRows(n), Seg1Cols(N, s),
                       M, AllRows(n), Cols(N + 1, s, -1), 1, 0)
        G2 == SetBlock(G1, AllRows(n), MirCols(N, s),
                       M, AllRows(n), Cols(N + 1, 0, -1), 1, 0)
        G3 == SetBlock(G2, AllRows(n), Seg3Cols(N, s),
                       M, AllRows(n), Cols(N + 1, 0, s), 1, 0)
    IN  IF legLabel = "left"
          THEN SetBlock(G3, AllRows(n), all, G3.v, idxPer, all, 1, 0)
          ELSE G3

\* lines 1420-1425, 1428-1434 and 1446-1452: a state family whose mirrored
\* half is the index permutation idxPer (activations, tendon forces, arm
\* activations)
ReconstructedState(M, N, s, idxPer, legLabel) ==
    LET n   == Len(idxPer)
        all == Cols(2 * N, 0, 2 * N)
        G0 == Zeros(n, 2 * N)
        G1 == SetBlock(G0, AllRows(n), Seg1Cols(N, s),
                       M, AllRows(n), Cols(N + 1, s, -1), 1, 0)
        G2 == SetBlock(G1, AllRows(n), MirCols(N, s),
                       M, idxPer, Cols(N + 1, 0, -1), 1, 0)
        G3 == SetBlock(G2, AllRows(n), Seg3Cols(N, s),
                       M, AllRows(n), Cols(N + 1, 0, s), 1, 0)
    IN  IF legLabel = "left"
          THEN SetBlock(G3, AllRows(n), all, G3.v, idxPer, all, 1, 0)
          ELSE G3

\* lines 1437-1443: tendon force derivatives, one value per mesh interval
ReconstructedFDt(g) ==
    LET N   == g.N
        c   == idxIC_c(g.idxIC)
        M   == LastCollocation(normFDt_col_opt_nsc(g), N, g.d)
        n   == nMuscles
        all == Cols(2 * N, 0, 2 * N)
        G0 == Zeros(n, 2 * N)
        G1 == SetBlock(G0, AllRows(n), Seg1Cols(N, c),
                       M, AllRows(n), Cols(N, c, N), 1, 0)
        G2 == SetBlock(G1, AllRows(n), MirCols(N, c),
                       M, idxPerMuscles, Cols(N, 0, N), 1, 0)
        G3 == SetBlock(G2, AllRows(n), Seg3Cols(N, c),
                       M, AllRows(n), Cols(N, 0, c), 1, 0)
    IN  IF g.legIC = "left"
          THEN SetBlock(G3, AllRows(n), all, G3.v, idxPerMuscles, all, 1, 0)
          ELSE G3

GCInit ==
    /\ gpc = "Qs"
    /\ \E N \in 1..MaxNGC :
         gin \in [N : {N}, d : 1..MaxD, withMTP : BOOLEAN, idxIC : 0..(N - 1),
                  legIC : {"right", "left"}, tx : [0..N -> TxVals]]
    /\ gin.tx[0] \in Qs0_pelvis_tx
    /\ finalTime_opt = << 0, 1 >>
    /\ tgrid_GC = << >>
    /\ Qs_GC = << >>
    /\ Qds_GC = << >>
    /\ Qdds_GC = << >>
    /\ A_GC = << >>
    /\ F_GC = << >>
    /\ FDt_GC = << >>
    /\ aArm_GC = << >>

\* the gait-cycle variables while another model runs
GCIdle ==
    /\ gpc = "idle"
    /\ gin = NoGin
    /\ finalTime_opt = << 0, 1 >>
    /\ tgrid_GC = << >>
    /\ Qs_GC = << >>
    /\ Qds_GC = << >>
    /\ Qdds_GC = << >>
    /\ A_GC = << >>
    /\ F_GC = << >>
    /\ FDt_GC = << >>
    /\ aArm_GC = << >>

ReconstructQs ==
    /\ gpc = "Qs"
    /\ LET G == ReconstructedQs(gin)
       IN  /\ Qs_GC' = G.v
           /\ gpc' = IF G.ok THEN "Qds" ELSE "aborted"
    /\ UNCHANGED << gin, Qds_GC, Qdds_GC, A_GC, F_GC, FDt_GC, aArm_GC >>
    /\ UNCHANGED << finalTime_opt, tgrid_GC >>
    /\ UNCHANGED outsideGC

ReconstructQds ==
    /\ gpc = "Qds"
    /\ LET G == ReconstructedQds(gin)
       IN  /\ Qds_GC' = G.v
           /\ gpc' = IF G.ok THEN "Qdds" ELSE "aborted"
    /\ UNCHANGED << gin, Qs_GC, Qdds_GC, A_GC, F_GC, FDt_GC, aArm_GC >>
    /\ UNCHANGED << finalTime_opt, tgrid_GC >>
    /\ UNCHANGED outsideGC

ReconstructQdds ==
    /\ gpc = "Qdds"
    /\ LET G == ReconstructedQdds(gin)
       IN  /\ Qdds_GC' = G.v
           /\ gpc' = IF G.ok THEN "A" ELSE "aborted"
    /\ UNCHANGED << gin, Qs_GC, Qds_GC, A_GC, F_GC, FDt_GC, aArm_GC >>
    /\ UNCHANGED << finalTime_opt, tgrid_GC >>
    /\ UNCHANGED outsideGC

ReconstructA ==
    /\ gpc = "A"
    /\ LET G == ReconstructedState(a_opt(gin), gin.N, idxIC_s(gin.idxIC),
                                   idxPerMuscles, gin.legIC)
       IN  /\ A_GC' = G.v
           /\ gpc' = IF G.ok THEN "F" ELSE "aborted"
    /\ UNCHANGED << gin, Qs_GC, Qds_GC, Qdds_GC, F_GC, FDt_GC, aArm_GC >>
    /\ UNCHANGED << finalTime_opt, tgrid_GC >>
    /\ UNCHANGED outsideGC

ReconstructF ==
    /\ gpc = "F"
    /\ LET G == ReconstructedState(normF_opt_nsc(gin), gin.N,
                                   idxIC_s(gin.idxIC), idxPerMuscles,
                                   gin.legIC)
       IN  /\ F_GC' = G.v
           /\ gpc' = IF G.ok THEN "FDt" ELSE "aborted"
    /\ UNCHANGED << gin, Qs_GC, Qds_GC, Qdds_GC, A_GC, FDt_GC, aArm_GC >>
    /\ UNCHANGED << finalTime_opt, tgrid_GC >>
    /\ UNCHANGED outsideGC

ReconstructFDt ==
    /\ gpc = "FDt"
    /\ LET G == ReconstructedFDt(gin)
       IN  /\ FDt_GC' = G.v
           /\ gpc' = IF G.ok THEN "aArm" ELSE "aborted"
    /\ UNCHANGED << gin, Qs_GC, Qds_GC, Qdds_GC, A_GC, F_GC, aArm_GC >>
    /\ UNCHANGED << finalTime_opt, tgrid_GC >>
    /\ UNCHANGED outsideGC

ReconstructArm ==
    /\ gpc = "aArm"
    /\ LET G == ReconstructedState(aArm_opt_nsc(gin), gin.N,
                                   idxIC_s(gin.idxIC), idxPerArmJoints,
                                   gin.legIC)
       IN  /\ aArm_GC' = G.v
           /\ gpc' = IF G.ok THEN "tgrid" ELSE "aborted"
    /\ UNCHANGED << gin, Qs_GC, Qds_GC, Qdds_GC, A_GC, F_GC, FDt_GC >>
    /\ UNCHANGED << finalTime_opt, tgrid_GC >>
    /\ UNCHANGED outsideGC

(***************************************************************************)
(* Cost model.  Real numbers are exact fractions << numerator,             *)
(* denominator >> in lowest terms with a positive denominator.             *)
(***************************************************************************)
RECURSIVE GCD(_, _)
GCD(x, y) == IF y = 0 THEN x ELSE GCD(y, x % y)

R(n, m) == LET g == GCD(Abs(n), m) IN << n \div g, m \div g >>

RZero == << 0, 1 >>

RAdd(x, y) ==
    LET m == (x[2] \div GCD(x[2], y[2])) * y[2]
    IN  R(x[1] * (m \div x[2]) + y[1] * (m \div y[2]), m)

RMul(x, y) == R(x[1] * y[1], x[2] * y[2])

\* x / y for y > 0
RDiv(x, y) == R(x[1] * y[2], x[2] * y[1])

RAbsDiff(x, y) == LET z == RAdd(x, << -y[1], y[2] >>) IN << Abs(z[1]), z[2] >>

\* x <= 1 / n for x >= 0
RAtMostOneOver(x, n) == x[1] <= x[2] \div n

RECURSIVE RSum(_, _)
RSum(f, S) ==
    IF S = {} THEN RZero
    ELSE LET x == CHOOSE y \in S : TRUE IN RAdd(f[x], RSum(f, S \ {x}))

\* f[lo] + ... + f[hi]
RECURSIVE ISum(_, _, _)
ISum(f, lo, hi) ==
    IF lo > hi THEN 0
    ELSE IF lo = hi THEN f[lo]
    ELSE LET mid == (lo + hi) \div 2
         IN  ISum(f, lo, mid) + ISum(f, mid + 1, hi)

\* the cost terms, in the order of the decomposition
CostTerms ==
    << "metabolicEnergyRateTerm", "activationTerm", "armExcitationTerm",
       "jointAccelerationTerm", "passiveTorqueTerm", "activationDtTerm",
       "forceDtTerm", "armAccelerationTerm" >>

\* weight tables the settings of a case may select
WeightTables ==
    { [metabolicEnergyRateTerm |-> 5, activationTerm |-> 2,
       jointAccelerationTerm |-> 3, armExcitationTerm |-> 4,
       passiveTorqueTerm |-> 1, controls |-> 1],
      [metabolicEnergyRateTerm |-> 1, activationTerm |-> 3,
       jointAccelerationTerm |-> 2, armExcitationTerm |-> 1,
       passiveTorqueTerm |-> 4, controls |-> 2] }

\* the weight of a cost term: the three control terms share 'controls'
weightOf(weights, term) ==
    IF term \in {"activationDtTerm", "forceDtTerm", "armAccelerationTerm"}
      THEN weights.controls
      ELSE weights[term]

\* line 888 and lines 1587-1588: the quadrature coefficients, rounded to
\* ninths (0, 0.376, 0.512, 0.111)
B == [i \in 0..3 |-> R(<< 0, 3, 5, 1 >>[i + 1], 9)]

\* seeds of the solution arrays of the cost model
Seeds == {1}

\* values of the final time and of the distance travelled of the cost model
ScaleVals == {1, 2}

\* values of the model mass of the cost model
MassVals == {2}

NoCin == [N |-> 0, d |-> 0, withMTP |-> FALSE, seed |-> 0, success |-> FALSE,
          finalTime |-> 0, distTraveled |-> 0, modelMass |-> 0,
          weights |-> << >>, solvedWith |-> << >>]

\* entry (r, c) of the solution array of family fm: 0 or 1, the number of
\* ones of a column changes with the column
Entry(seed, fm, r, c) == IF (r + fm) % (c + seed + 2) = 0 THEN 1 ELSE 0

SolutionArray(seed, fm, rows, cols) ==
    [r \in 0..(rows - 1) |-> [c \in 0..(cols - 1) |-> Entry(seed, fm, r, c)]]

\* the optimal (scaled) variables of the case
a_opt_c(g) == SolutionArray(g.seed, 1, nMuscles, g.N + 1)

a_col_opt(g) == SolutionArray(g.seed, 2, nMuscles, g.d * g.N)

normF_opt_c(g) == SolutionArray(g.seed, 3, nMuscles, g.N + 1)

normF_col_opt(g) == SolutionArray(g.seed, 4, nMuscles, g.d * g.N)

Qs_opt_c(g) == SolutionArray(g.seed, 5, nJoints(g.withMTP), g.N + 1)

Qs_col_opt(g) == SolutionArray(g.seed, 6, nJoints(g.withMTP), g.d * g.N)

Qds_opt_c(g) == SolutionArray(g.seed, 7, nJoints(g.withMTP), g.N + 1)

Qds_col_opt(g) == SolutionArray(g.seed, 8, nJoints(g.withMTP), g.d * g.N)

aDt_opt(g) == SolutionArray(g.seed, 9, nMuscles, g.N)

eArm_opt(g) == SolutionArray(g.seed, 10, nArmJoints, g.N)

normFDt_col_opt(g) == SolutionArray(g.seed, 11, nMuscles, g.d * g.N)

Qdds_col_opt(g) == SolutionArray(g.seed, 12, nJoints(g.withMTP), g.d * g.N)

\* lines 364-366: all but the arm joints
noArmJoints(withMTP) == RemoveAll(joints(withMTP), Range(armJoints))

idxNoArmJoints(withMTP) == getJointIndices(joints(withMTP), noArmJoints(withMTP))

idxArmJoints(withMTP) == getJointIndices(joints(withMTP), armJoints)

\* lines 375-386: joints with passive torques
passiveTorqueJoints(withMTP) ==
    RemoveAll(<< "hip_flexion_r", "hip_flexion_l", "hip_adduction_r",
                 "hip_adduction_l", "hip_rotation_r", "hip_rotation_l",
                 "knee_angle_r", "knee_angle_l",
                 "ankle_angle_r", "ankle_angle_l",
                 "subtalar_angle_r", "subtalar_angle_l",
                 "lumbar_extension", "lumbar_bending", "lumbar_rotation",
                 "mtp_angle_l", "mtp_angle_r" >>,
              IF withMTP THEN {} ELSE Range(mtpJoints))

\* M[:, c]
Column(M, c) == [r \in DOMAIN M |-> M[r][c]]

\* v[idx]
Take(v, idx) == [i \in 0..(Len(idx) - 1) |-> v[idx[i + 1]]]

\* M[:, k*d:(k+1)*d]
Block(M, k, d) == [r \in DOMAIN M |-> [j \in 0..(d - 1) |-> M[r][k * d + j]]]

\* ca.horzcat(col, M)
horzcat(col, M) ==
    [r \in DOMAIN M |->
       [j \in 0..Cardinality(DOMAIN M[r]) |->
          IF j = 0 THEN col[r] ELSE M[r][j - 1]]]

\* the normalised sum of squares of a vector
normSumPow(x) ==
    LET n == Cardinality(DOMAIN x)
    IN  R(ISum([i \in DOMAIN x |-> x[i] * x[i]], 0, n - 1), n)

\* the metabolic energy rate of every muscle at a collocation node, through
\* the Hill equilibrium of the node: a function of the activation, the
\* tendon force and its derivative at the node
f_metabolicsBhargava(act, normFj, normFDtj) ==
    [m \in DOMAIN act |-> act[m] + normFj[m] * normFDtj[m]]

\* the passive torque of a joint from its position and velocity
f_passiveTorque(q, qd) == q + qd

\* lines 1003-1022: the cost J of mesh interval k as f_coll accumulates it
\* over the d collocation points, from the columns f_coll_map hands it
f_coll(g, weights, k) ==
    LET d        == g.d
        akj      == horzcat(Column(a_opt_c(g), k), Block(a_col_opt(g), k, d))
        normFkj  == horzcat(Column(normF_opt_c(g), k),
                            Block(normF_col_opt(g), k, d))
        Qskj     == horzcat(Column(Qs_opt_c(g), k), Block(Qs_col_opt(g), k, d))
        Qdskj    == horzcat(Column(Qds_opt_c(g), k),
                            Block(Qds_col_opt(g), k, d))
        aDtk     == Column(aDt_opt(g), k)
        eArmk    == Column(eArm_opt(g), k)
        normFDtj == Block(normFDt_col_opt(g), k, d)
        Qddsj    == Block(Qdds_col_opt(g), k, d)
        js       == joints(g.withMTP)
        pj       == passiveTorqueJoints(g.withMTP)
        h        == R(g.finalTime, g.N)
        Jj(j) ==
            LET metabolicEnergyRatej ==
                    f_metabolicsBhargava(Column(akj, j + 1),
                                         Column(normFkj, j + 1),
                                         Column(normFDtj, j))
                passiveTorquesj ==
                    [cj0 \in 0..(Len(pj) - 1) |->
                       f_passiveTorque(Qskj[index(js, pj[cj0 + 1])][j + 1],
                                       Qdskj[index(js, pj[cj0 + 1])][j + 1])]
                metEnergyRateTerm ==
                    RDiv(normSumPow(metabolicEnergyRatej), R(g.modelMass, 1))
                activationTerm == normSumPow(Column(akj, j + 1))
                armExcitationTerm == normSumPow(eArmk)
                jointAccelerationTerm ==
                    normSumPow(Take(Column(Qddsj, j),
                                    idxNoArmJoints(g.withMTP)))
                passiveTorqueTerm == normSumPow(passiveTorquesj)
                activationDtTerm == normSumPow(aDtk)
                forceDtTerm == normSumPow(Column(normFDtj, j))
                armAccelerationTerm ==
                    normSumPow(Take(Column(Qddsj, j), idxArmJoints(g.withMTP)))
                weighted ==
                    RAdd(RMul(R(weights.metabolicEnergyRateTerm, 1),
                              metEnergyRateTerm),
                    RAdd(RMul(R(weights.activationTerm, 1), activationTerm),
                    RAdd(RMul(R(weights.armExcitationTerm, 1),
                              armExcitationTerm),
                    RAdd(RMul(R(weights.jointAccelerationTerm, 1),
                              jointAccelerationTerm),
                    RAdd(RMul(R(weights.passiveTorqueTerm, 1),
                              passiveTorqueTerm),
                         RMul(R(weights.controls, 1),
                              RAdd(forceDtTerm,
                                   RAdd(activationDtTerm,
                                        armAccelerationTerm))))))))
            IN  RMul(RMul(weighted, h), B[j + 1])
    IN  RSum([j \in 0..(d - 1) |-> Jj(j)], 0..(d - 1))

\* lines 1126-1133 and 1188: the N interval costs are summed and divided by
\* the distance travelled
Jall_sc(g, weights) ==
    RDiv(RSum([k \in 0..(g.N - 1) |-> f_coll(g, weights, k)], 0..(g.N - 1)),
         R(g.distTraveled, 1))

\* lines 1632-1688: the eight cost terms of collocation point j of mesh
\* interval k, recomputed from the optimal solution
terms_opt(g, k, j) ==
    LET d            == g.d
        akj_opt      == horzcat(Column(a_opt_c(g), k),
                                Block(a_col_opt(g), k, d))
        normFkj_opt  == horzcat(Column(normF_opt_c(g), k),
                                Block(normF_col_opt(g), k, d))
        Qskj_opt     == horzcat(Column(Qs_opt_c(g), k),
                                Block(Qs_col_opt(g), k, d))
        Qdskj_opt    == horzcat(Column(Qds_opt_c(g), k),
                                Block(Qds_col_opt(g), k, d))
        aDtk_opt     == Column(aDt_opt(g), k)
        eArmk_opt    == Column(eArm_opt(g), k)
        Qddsj_opt    == Block(Qdds_col_opt(g), k, d)
        normFDtj_opt == Block(normFDt_col_opt(g), k, d)
        js           == joints(g.withMTP)
        pj           == passiveTorqueJoints(g.withMTP)
        passiveTorquesj_opt ==
            [cj0 \in 0..(Len(pj) - 1) |->
               f_passiveTorque(Qskj_opt[index(js, pj[cj0 + 1])][j + 1],
                               Qdskj_opt[index(js, pj[cj0 + 1])][j + 1])]
        metabolicEnergyRatej_opt ==
            f_metabolicsBhargava(Column(akj_opt, j + 1),
                                 Column(normFkj_opt, j + 1),
                                 Column(normFDtj_opt, j))
    IN  [metabolicEnergyRateTerm |->
             RDiv(normSumPow(metabolicEnergyRatej_opt), R(g.modelMass, 1)),
         activationTerm |-> normSumPow(Column(akj_opt, j + 1)),
         armExcitationTerm |-> normSumPow(eArmk_opt),
         jointAccelerationTerm |->
             normSumPow(Take(Column(Qddsj_opt, j), idxNoArmJoints(g.withMTP))),
         passiveTorqueTerm |-> normSumPow(passiveTorquesj_opt),
         activationDtTerm |-> normSumPow(aDtk_opt),
         forceDtTerm |-> normSumPow(Column(normFDtj_opt, j)),
         armAccelerationTerm |->
             normSumPow(Take(Column(Qddsj_opt, j), idxArmJoints(g.withMTP)))]

\* variant: the quadrature coefficient B[j] is used
Contribution_shifted(weight, term, h_opt, j, distTraveled_opt) ==
    RDiv(RMul(RMul(RMul(R(weight, 1), term), h_opt), B[j]),
         R(distTraveled_opt, 1))

\* lines 1691-1714: what collocation point j adds to the running total of a
\* term: weight * term * h_opt * B[j + 1] / distTraveled_opt
Contribution(weight, term, h_opt, j, distTraveled_opt) ==
    RDiv(RMul(RMul(RMul(R(weight, 1), term), h_opt), B[j + 1]),
         R(distTraveled_opt, 1))

\* lines 1726-1733: JAll_opt, the sum of the eight totals
JAll_opt(totals) == RSum(totals, Range(CostTerms))

\* the tolerance of the comparison of line 1739 is 1 / CostTolInv
CostTolInv == 1000000

CostInit ==
    /\ cpc = "transcribe"
    /\ cin \in [N : 1..MaxMesh, d : 1..MaxD, withMTP : BOOLEAN,
                seed : Seeds, success : BOOLEAN,
                finalTime : ScaleVals, distTraveled : ScaleVals,
                modelMass : MassVals, weights : WeightTables,
                solvedWith : WeightTables]
    /\ obj = RZero
    /\ terms_opt_all = [t \in Range(CostTerms) |-> RZero]
    /\ ck = 0
    /\ cj = 0

\* the cost variables while another model runs
CostIdle ==
    /\ cpc = "idle"
    /\ cin = NoCin
    /\ obj = RZero
    /\ terms_opt_all = << >>
    /\ ck = 0
    /\ cj = 0

\* lines 1188-1200 (or 1209-1213 when a stored solution is analysed): the
\* final objective of the solver is the transcription objective, under the
\* weights the problem was solved with, at the optimal solution
Objective ==
    /\ cpc = "transcribe"
    /\ obj' = Jall_sc(cin, cin.solvedWith)
    /\ cpc' = "decompose"
    /\ UNCHANGED << cin, terms_opt_all, ck, cj >>
    /\ UNCHANGED outsideCost

\* one pass of the inner loop of lines 1598-1714
DecomposeNode ==
    /\ cpc = "decompose"
    /\ LET h_opt == R(cin.finalTime, cin.N)
           t     == terms_opt(cin, ck, cj)
       IN  terms_opt_all' =
             [x \in Range(CostTerms) |->
                RAdd(terms_opt_all[x],
                     Contribution(weightOf(cin.weights, x), t[x], h_opt, cj,
                                  cin.distTraveled))]
    /\ IF cj + 1 < cin.d
         THEN /\ cj' = cj + 1
              /\ UNCHANGED << ck, cpc >>
         ELSE /\ cj' = 0
              /\ IF ck + 1 < cin.N
                   THEN /\ ck' = ck + 1
                        /\ UNCHANGED cpc
                   ELSE /\ UNCHANGED ck
                        /\ cpc' = "compare"
    /\ UNCHANGED << cin, obj >>
    /\ UNCHANGED outsideCost

\* lines 1736-1739
CompareCost ==
    /\ cpc = "compare"
    /\ cpc' = IF /\ cin.success
                 /\ ~RAtMostOneOver(RAbsDiff(JAll_opt(terms_opt_all), obj),
                                    CostTolInv)
                THEN "aborted"
                ELSE "done"
    /\ UNCHANGED << cin, obj, terms_opt_all, ck, cj >>
    /\ UNCHANGED outsideCost

CostNext ==
    \/ Objective
    \/ DecomposeNode
    \/ CompareCost

(***************************************************************************)
(* Transcription model.                                                    *)
(***************************************************************************)
NoNin == [N |-> 0, d |-> 0, withMTP |-> FALSE, Qs0 |-> << 0, 0 >>,
          nThreads |-> 0]

\* lines 369-371
groundPelvisJoints ==
    << "pelvis_tilt", "pelvis_list", "pelvis_rotation",
       "pelvis_tx", "pelvis_ty", "pelvis_tz" >>

idxGroundPelvisJoints(withMTP) ==
    getJointIndices(joints(withMTP), groundPelvisJoints)

\* lines 395-401
muscleDrivenJoints ==
    << "hip_flexion_l", "hip_flexion_r", "hip_adduction_l",
       "hip_adduction_r", "hip_rotation_l", "hip_rotation_r",
       "knee_angle_l", "knee_angle_r",
       "ankle_angle_l", "ankle_angle_r",
       "subtalar_angle_l", "subtalar_angle_r",
       "lumbar_extension", "lumbar_bending", "lumbar_rotation" >>

\* list(range(a, b))
pyrange(a, b) == [i \in 1..(b - a) |-> a + i - 1]

\* l[-1]
Last(l) == l[Len(l)]

\* lines 513-526: the index lists of the 2D body origins in the output of F
F_outputs(nJ) ==
    LET idxCalcOr_r  == pyrange(nJ, nJ + 2)
        idxCalcOr_l  == pyrange(Last(idxCalcOr_r) + 1, Last(idxCalcOr_r) + 3)
        idxFemurOr_r == pyrange(Last(idxCalcOr_l) + 1, Last(idxCalcOr_l) + 3)
        idxFemurOr_l == pyrange(Last(idxFemurOr_r) + 1, Last(idxFemurOr_r) + 3)
        idxHandOr_r  == pyrange(Last(idxFemurOr_l) + 1, Last(idxFemurOr_l) + 3)
        idxHandOr_l  == pyrange(Last(idxHandOr_r) + 1, Last(idxHandOr_r) + 3)
        idxTibiaOr_r == pyrange(Last(idxHandOr_l) + 1, Last(idxHandOr_l) + 3)
        idxTibiaOr_l == pyrange(Last(idxTibiaOr_r) + 1, Last(idxTibiaOr_r) + 3)
        idxToesOr_r  == pyrange(Last(idxTibiaOr_l) + 1, Last(idxTibiaOr_l) + 3)
        idxToesOr_l  == pyrange(Last(idxToesOr_r) + 1, Last(idxToesOr_r) + 3)
    IN  << idxCalcOr_r, idxCalcOr_l, idxFemurOr_r, idxFemurOr_l,
           idxHandOr_r, idxHandOr_l, idxTibiaOr_r, idxTibiaOr_l,
           idxToesOr_r, idxToesOr_l >>

\* variant: the left ground reaction moments start on the last right one
F1_outputs_overlap(nJ) ==
    LET idxGRF_r      == pyrange(nJ, nJ + 3)
        idxGRF_l      == pyrange(Last(idxGRF_r) + 1, Last(idxGRF_r) + 4)
        idxCalcOr3D_r == pyrange(Last(idxGRF_l) + 1, Last(idxGRF_l) + 4)
        idxCalcOr3D_l == pyrange(Last(idxCalcOr3D_r) + 1, Last(idxCalcOr3D_r) + 4)
        idxGRM_r      == pyrange(Last(idxCalcOr3D_l) + 1, Last(idxCalcOr3D_l) + 4)
        idxGRM_l      == pyrange(Last(idxGRM_r), Last(idxGRM_r) + 3)
    IN  [idxGRF      |-> idxGRF_r \o idxGRF_l,
         idxCalcOr3D |-> idxCalcOr3D_r \o idxCalcOr3D_l,
         idxGRM      |-> idxGRM_r \o idxGRM_l,
         NF1_out     |-> Last(idxGRM_l) + 1]

\* lines 534-549: the index lists of the ground reaction forces, of the 3D
\* calcaneus origins and of the ground reaction moments in the output of F1,
\* and the number of outputs of F1
F1_outputs(nJ) ==
    LET idxGRF_r      == pyrange(nJ, nJ + 3)
        idxGRF_l      == pyrange(Last(idxGRF_r) + 1, Last(idxGRF_r) + 4)
        idxCalcOr3D_r == pyrange(Last(idxGRF_l) + 1, Last(idxGRF_l) + 4)
        idxCalcOr3D_l == pyrange(Last(idxCalcOr3D_r) + 1, Last(idxCalcOr3D_r) + 4)
        idxGRM_r      == pyrange(Last(idxCalcOr3D_l) + 1, Last(idxCalcOr3D_l) + 4)
        idxGRM_l      == pyrange(Last(idxGRM_r) + 1, Last(idxGRM_r) + 4)
    IN  [idxGRF      |-> idxGRF_r \o idxGRF_l,
         idxCalcOr3D |-> idxCalcOr3D_r \o idxCalcOr3D_l,
         idxGRM      |-> idxGRM_r \o idxGRM_l,
         NF1_out     |-> Last(idxGRM_l) + 1]

\* the general bounds of the joint positions, one pair per joint, as the
\* bounds provider returns them: distinct from joint to joint
lbQs(withMTP) == [j \in 0..(nJoints(withMTP) - 1) |-> -(j + 2)]

ubQs(withMTP) == [j \in 0..(nJoints(withMTP) - 1) |-> j + 2]

\* the pairs (lbQs0, ubQs0) of pelvis_tx the bounds provider may return
Qs0Bounds == { << 0, 0 >>, << -1, 0 >>, << -1, 1 >> }

\* v.to_numpy().T * np.ones((1, cols)): one column of v per node
Replicate(v, cols) == [r \in DOMAIN v |-> [c \in 0..(cols - 1) |-> v[r]]]

\* position i of a Python sequence of n entries, negative indices included
PyIndex(n, i) == IF i < 0 THEN n + i ELSE i

\* variant: the override lands where a row-major layout keeps pelvis_tx at
\* the first mesh point
BoundsAtMesh_rowMajor(general, special, withMTP, N) ==
    LET nJ == nJoints(withMTP)
        tx == index(joints(withMTP), "pelvis_tx")
    IN  [Vec(Replicate(general, N + 1), nJ, N + 1)
           EXCEPT ![tx * (N + 1) + 1] = special]

\* lines 629-637: the bounds of the joint positions at the mesh points and at
\* the collocation points, and the override at joints.index('pelvis_tx')
BoundsAtMesh(general, special, withMTP, N) ==
    LET nJ == nJoints(withMTP)
        tx == index(joints(withMTP), "pelvis_tx")
    IN  [Vec(Replicate(general, N + 1), nJ, N + 1) EXCEPT ![tx + 1] = special]

BoundsAtCollocation(general, withMTP, N, d) ==
    Vec(Replicate(general, d * N), nJoints(withMTP), d * N)

\* variant: the balance of the mtp joints is never appended
TorqueBalance_noMtp(withMTP, j) ==
    LET js  == joints(withMTP)
        gp  == idxGroundPelvisJoints(withMTP)
        res == [i \in 1..Len(gp) |->
                  [T |-> gp[i], node |-> j, kind |-> "residual", act |-> -1]]
        mus == [i \in 1..Len(muscleDrivenJoints) |->
                  [T |-> index(js, muscleDrivenJoints[i]), node |-> j,
                   kind |-> "muscle", act |-> -1]]
        arm == [i \in 1..Len(armJoints) |->
                  [T |-> index(js, armJoints[i]), node |-> j,
                   kind |-> "arm", act |-> i - 1]]
    IN  res \o mus \o arm

\* lines 1053-1083: the torque-balance entries f_coll appends to eq_constr
\* at collocation point j: T is the index of the torque in the output of the
\* external function, act the row of the arm activation it is balanced with
TorqueBalance(withMTP, j) ==
    LET js  == joints(withMTP)
        gp  == idxGroundPelvisJoints(withMTP)
        res == [i \in 1..Len(gp) |->
                  [T |-> gp[i], node |-> j, kind |-> "residual", act |-> -1]]
        mus == [i \in 1..Len(muscleDrivenJoints) |->
                  [T |-> index(js, muscleDrivenJoints[i]), node |-> j,
                   kind |-> "muscle", act |-> -1]]
        arm == [i \in 1..Len(armJoints) |->
                  [T |-> index(js, armJoints[i]), node |-> j,
                   kind |-> "arm", act |-> i - 1]]
        mtp == [i \in 1..Len(mtpJoints) |->
                  [T |-> index(js, mtpJoints[i]), node |-> j,
                   kind |-> "mtp", act |-> -1]]
    IN  res \o mus \o arm \o (IF withMTP THEN mtp ELSE << >>)

\* lines 1119-1133: the inputs of f_coll: the symbol, its number of columns,
\* the opti variable handed to the mapped function and the columns of that
\* variable that are handed over
f_coll_inputs(N, d) ==
    << [sym |-> "tf",       c |-> 1, var |-> "finalTime",   cols |-> Cols(1, 0, 1)],
       [sym |-> "ak",       c |-> 1, var |-> "a",           cols |-> Cols(N + 1, 0, -1)],
       [sym |-> "aj",       c |-> d, var |-> "a_col",       cols |-> Cols(d * N, 0, d * N)],
       [sym |-> "normFk",   c |-> 1, var |-> "normF",       cols |-> Cols(N + 1, 0, -1)],
       [sym |-> "normFj",   c |-> d, var |-> "normF_col",   cols |-> Cols(d * N, 0, d * N)],
       [sym |-> "Qsk",      c |-> 1, var |-> "Qs",          cols |-> Cols(N + 1, 0, -1)],
       [sym |-> "Qsj",      c |-> d, var |-> "Qs_col",      cols |-> Cols(d * N, 0, d * N)],
       [sym |-> "Qdsk",     c |-> 1, var |-> "Qds",         cols |-> Cols(N + 1, 0, -1)],
       [sym |-> "Qdsj",     c |-> d, var |-> "Qds_col",     cols |-> Cols(d * N, 0, d * N)],
       [sym |-> "aArmk",    c |-> 1, var |-> "aArm",        cols |-> Cols(N + 1, 0, -1)],
       [sym |-> "aArmj",    c |-> d, var |-> "aArm_col",    cols |-> Cols(d * N, 0, d * N)],
       [sym |-> "aDtk",     c |-> 1, var |-> "aDt",         cols |-> Cols(N, 0, N)],
       [sym |-> "eArmk",    c |-> 1, var |-> "eArm",        cols |-> Cols(N, 0, N)],
       [sym |-> "normFDtj", c |-> d, var |-> "normFDt_col", cols |-> Cols(d * N, 0, d * N)],
       [sym |-> "Qddsj",    c |-> d, var |-> "Qdds_col",    cols |-> Cols(d * N, 0, d * N)] >>

\* f_coll.map(N): call k of the mapped function gets columns k*c .. (k+1)*c-1
\* of an argument of c*N columns, and the whole of an argument of c columns
MapColumns(c, cols, N, k) ==
    IF cols[2] - cols[1] = c * N
      THEN << cols[1] + k * c, cols[1] + (k + 1) * c >>
      ELSE cols

\* variant: the last collocation column of the interval is left out
ContinuityOf_short(N, d, k) ==
    { [kind |-> "continuity", fam |-> f, row |-> -1, at |-> k + 1,
       other |-> -1, from |-> k, sgn |-> 0,
       cols |-> Cols(d * N, k * d, (k + 1) * d - 1)] :
        f \in {"a", "normF", "Qs", "Qds", "aArm"} }

\* lines 1147-1158: the five continuity constraints of mesh interval k; cols
\* are the collocation columns that enter the product with D
ContinuityOf(N, d, k) ==
    { [kind |-> "continuity", fam |-> f, row |-> -1, at |-> k + 1,
       other |-> -1, from |-> k, sgn |-> 0,
       cols |-> Cols(d * N, k * d, (k + 1) * d)] :
        f \in {"a", "normF", "Qs", "Qds", "aArm"} }

\* variant: every row is tied to itself
PeriodicOf_unpaired(f, rowsA, rowsB, sgn, N) ==
    { [kind |-> "periodic", fam |-> f, row |-> rowsA[i],
       at |-> PyIndex(N + 1, -1), other |-> rowsA[i], from |-> 0,
       sgn |-> sgn, cols |-> << 0, 0 >>] : i \in 1..Len(rowsA) }

\* one call of opti.subject_to(X[rowsA, -1] + sgn * X[rowsB, 0] == 0), entry
\* by entry
PeriodicOf(f, rowsA, rowsB, sgn, N) ==
    { [kind |-> "periodic", fam |-> f, row |-> rowsA[i],
       at |-> PyIndex(N + 1, -1), other |-> rowsB[i], from |-> 0,
       sgn |-> sgn, cols |-> << 0, 0 >>] : i \in 1..Len(rowsA) }

\* largest number of threads of the map
MaxThreads == 2

NlpInit ==
    /\ npc = "outputs"
    /\ Fidx = << >>
    /\ nin \in [N : 1..MaxMesh, d : 1..MaxD, withMTP : BOOLEAN,
                Qs0 : Qs0Bounds, nThreads : 1..MaxThreads]
    /\ lbQsk = << >>
    /\ ubQsk = << >>
    /\ lbQsj = << >>
    /\ ubQsj = << >>
    /\ eq_constr = << >>
    /\ nj = 0
    /\ mapped = << >>
    /\ constr = {}
    /\ running = {}
    /\ outs = << >>
    /\ coll = << >>

\* the transcription variables while another model runs
NlpIdle ==
    /\ npc = "idle"
    /\ nin = NoNin
    /\ Fidx = << >>
    /\ lbQsk = << >>
    /\ ubQsk = << >>
    /\ lbQsj = << >>
    /\ ubQsj = << >>
    /\ eq_constr = << >>
    /\ nj = 0
    /\ mapped = << >>
    /\ constr = {}
    /\ running = {}
    /\ outs = << >>
    /\ coll = << >>

\* lines 513-549: the index lists of the outputs of F and F1
IndexOutputs ==
    /\ npc = "outputs"
    /\ Fidx' = [F  |-> F_outputs(nJoints(nin.withMTP)),
                F1 |-> F1_outputs(nJoints(nin.withMTP))]
    /\ npc' = "bounds"
    /\ UNCHANGED << nin, lbQsk, ubQsk, lbQsj, ubQsj, eq_constr, nj, mapped,
                    constr >>
    /\ UNCHANGED poolVars
    /\ UNCHANGED outsideNlp

\* lines 629-637
SetBounds ==
    /\ npc = "bounds"
    /\ lbQsk' = BoundsAtMesh(lbQs(nin.withMTP), nin.Qs0[1], nin.withMTP, nin.N)
    /\ ubQsk' = BoundsAtMesh(ubQs(nin.withMTP), nin.Qs0[2], nin.withMTP, nin.N)
    /\ lbQsj' = BoundsAtCollocation(lbQs(nin.withMTP), nin.withMTP, nin.N, nin.d)
    /\ ubQsj' = BoundsAtCollocation(ubQs(nin.withMTP), nin.withMTP, nin.N, nin.d)
    /\ npc' = "f_coll"
    /\ UNCHANGED << nin, Fidx, eq_constr, nj, mapped, constr >>
    /\ UNCHANGED poolVars
    /\ UNCHANGED outsideNlp

\* lines 904-1108: one pass of the loop over the collocation points of f_coll
CollocationPoint ==
    /\ npc = "f_coll"
    /\ nj < nin.d
    /\ eq_constr' = eq_constr \o TorqueBalance(nin.withMTP, nj)
    /\ nj' = IF nj + 1 < nin.d THEN nj + 1 ELSE 0
    /\ npc' = IF nj + 1 < nin.d THEN "f_coll" ELSE "map"
    /\ UNCHANGED << nin, Fidx, lbQsk, ubQsk, lbQsj, ubQsj, mapped, constr >>
    /\ UNCHANGED poolVars
    /\ UNCHANGED outsideNlp

\* lines 1126-1133: f_coll_map is called with the opti variables
MapCollocation ==
    /\ npc = "map"
    /\ mapped' =
         LET ins == f_coll_inputs(nin.N, nin.d)
         IN  [k \in 0..(nin.N - 1) |->
                [i \in 1..Len(ins) |->
                   [sym |-> ins[i].sym, var |-> ins[i].var,
                    cols |-> MapColumns(ins[i].c, ins[i].cols, nin.N, k)]]]
    /\ npc' = "continuity"
    /\ UNCHANGED << nin, Fidx, lbQsk, ubQsk, lbQsj, ubQsj, eq_constr, nj, constr >>
    /\ UNCHANGED poolVars
    /\ UNCHANGED outsideNlp

\* lines 1146-1158: one pass of the loop over the mesh intervals
Continuity ==
    /\ npc = "continuity"
    /\ nj < nin.N
    /\ constr' = constr \cup ContinuityOf(nin.N, nin.d, nj)
    /\ nj' = IF nj + 1 < nin.N THEN nj + 1 ELSE 0
    /\ npc' = IF nj + 1 < nin.N THEN "continuity" ELSE "periodic"
    /\ UNCHANGED << nin, Fidx, lbQsk, ubQsk, lbQsj, ubQsj, eq_constr, mapped >>
    /\ UNCHANGED poolVars
    /\ UNCHANGED outsideNlp

\* lines 1160-1176: the periodic constraints on the states
Periodic ==
    /\ npc = "periodic"
    /\ LET mtp == nin.withMTP
           N   == nin.N
       IN  constr' = constr
             \cup PeriodicOf("Qs", idxPerQsJointsA(mtp), idxPerQsJointsB(mtp), -1, N)
             \cup PeriodicOf("Qds", idxPerQdsJointsA(mtp), idxPerQdsJointsB(mtp), -1, N)
             \cup PeriodicOf("Qs", idxPerOppJoints(mtp), idxPerOppJoints(mtp), 1, N)
             \cup PeriodicOf("Qds", idxPerOppJoints(mtp), idxPerOppJoints(mtp), 1, N)
             \cup PeriodicOf("a", AllRows(nMuscles), idxPerMuscles, -1, N)
             \cup PeriodicOf("normF", AllRows(nMuscles), idxPerMuscles, -1, N)
             \cup PeriodicOf("aArm", AllRows(nArmJoints), idxPerArmJoints, -1, N)
    /\ npc' = "done"
    /\ UNCHANGED << nin, Fidx, lbQsk, ubQsk, lbQsj, ubQsj, eq_constr, nj, mapped >>
    /\ UNCHANGED poolVars
    /\ UNCHANGED outsideNlp

\* the outputs of call k of f_coll: a function of the arguments of that call
\* (lines 1119-1122: a ca.Function of its fifteen inputs)
f_coll_call(k) == [inputs |-> mapped[k]]

\* variant: a call is written after the calls that finished before it
OutputColumn_arrival(k, written) == Cardinality(written)

\* line 1126, f_coll.map(N, ...): call k writes column k of every output
OutputColumn(k, written) == k

\* line 1126, f_coll.map(N, "thread", nThreads): a free thread takes any mesh
\* interval that has not been evaluated
StartInterval ==
    /\ npc = "done"
    /\ Cardinality(running) < nin.nThreads
    /\ \E k \in 0..(nin.N - 1) :
         /\ k \notin running
         /\ \A s \in DOMAIN outs : outs[s].interval # k
         /\ running' = running \cup {k}
    /\ UNCHANGED << npc, nin, Fidx, lbQsk, ubQsk, lbQsj, ubQsj, eq_constr, nj,
                    mapped, constr, outs, coll >>
    /\ UNCHANGED outsideNlp

\* a thread finishes its interval, in any order
FinishInterval ==
    /\ npc = "done"
    /\ \E k \in running :
         /\ running' = running \ {k}
         /\ outs' = outs @@ (OutputColumn(k, DOMAIN outs)
                               :> [interval |-> k, out |-> f_coll_call(k)])
    /\ UNCHANGED << npc, nin, Fidx, lbQsk, ubQsk, lbQsj, ubQsj, eq_constr, nj,
                    mapped, constr, coll >>
    /\ UNCHANGED outsideNlp

\* lines 1127-1142: the outputs of the N calls, as columns 0..N-1
Assemble ==
    /\ npc = "done"
    /\ running = {}
    /\ Cardinality(DOMAIN outs) = nin.N
    /\ coll' = [k \in 0..(nin.N - 1) |-> outs[k].out]
    /\ npc' = "assembled"
    /\ UNCHANGED << nin, Fidx, lbQsk, ubQsk, lbQsj, ubQsj, eq_constr, nj,
                    mapped, constr, running, outs >>
    /\ UNCHANGED outsideNlp

NlpNext ==
    \/ IndexOutputs
    \/ SetBounds
    \/ CollocationPoint
    \/ MapCollocation
    \/ Continuity
    \/ Periodic
    \/ StartInterval
    \/ FinishInterval
    \/ Assemble

(***************************************************************************)
(* The guesses.                                                            *)
(***************************************************************************)
\* largest number of mesh intervals of the guess model
MaxGuessN == 3

\* x - y
RSub(x, y) == RAdd(x, << -y[1], y[2] >>)

\* x >= y
RGeq(x, y) == x[1] * y[2] >= y[1] * x[2]

\* np.linspace(a, b, num): num evenly spaced samples, both ends included
linspace(a, b, num) ==
    [i \in 0..(num - 1) |->
        IF num = 1 THEN a ELSE RAdd(a, RMul(R(i, num - 1), RSub(b, a)))]

\* np.argmax of an array of booleans: the first index that holds True, and 0
\* when none does
argmax(mask) ==
    IF \E i \in DOMAIN mask : mask[i]
      THEN CHOOSE i \in DOMAIN mask : mask[i] /\ \A h \in 0..(i - 1) : ~mask[h]
      ELSE 0

\* np.append(arr, value)
append(arr, n, value) == [i \in 0..n |-> IF i = n THEN value ELSE arr[i]]

\* guesses.py lines 15 and 220
allSpeeds == linspace(R(73, 100), R(273, 100), 21)

\* guesses.py lines 16 and 221
allFinalTimes == linspace(R(70, 100), R(35, 100), 21)

\* guesses.py lines 14-20 and 219-225 (the two classes share the body)
getGuessFinalTime(targetSpeed) ==
    LET idxTargetSpeed ==
          argmax([i \in DOMAIN allSpeeds |-> RGeq(allSpeeds[i], targetSpeed)])
    IN  allFinalTimes[idxTargetSpeed]

\* guesses.py line 29
pelvis_ty_guess == R(9385, 10000)

\* guesses.py lines 25-28: N samples from 0 to guessFinalTime * targetSpeed,
\* and one more a step after the last
g_pelvis_tx(N, finalTime, targetSpeed) ==
    LET g == linspace(RZero, RMul(finalTime, targetSpeed), N)
    IN  append(g, N, RAdd(g[N - 1], RSub(g[N - 1], g[N - 2])))

\* guesses.py lines 23-42
getGuessPosition(js, N, finalTime, targetSpeed, scaling) ==
    [joint \in Range(js) |->
        [k \in 0..N |->
            IF joint = "pelvis_tx"
              THEN RDiv(g_pelvis_tx(N, finalTime, targetSpeed)[k], scaling)
            ELSE IF joint = "pelvis_ty" THEN RDiv(pelvis_ty_guess, scaling)
            ELSE RDiv(RZero, scaling)]]

\* guesses.py lines 44-56
getGuessVelocity(js, N, targetSpeed, scaling) ==
    [joint \in Range(js) |->
        [k \in 0..N |->
            IF joint = "pelvis_tx" THEN RDiv(targetSpeed, scaling)
            ELSE RDiv(RZero, scaling)]]

\* target speeds: below, on, between and above the speeds of the table
TargetSpeeds ==
    {R(63, 100), R(73, 100), R(78, 100), R(133, 100), R(138, 100),
     R(273, 100), R(283, 100)}

\* scaling.iloc[0][joint], one value for every joint
Scalings == {R(1, 1), R(2, 1)}

\* the reference motion handed to the data-driven guess: the value of a
\* coordinate at sample k, distinct for every coordinate and sample
ReferenceMotions == {0, 1}

\* self.Qs_spline[joint], self.Qdots_spline[joint], self.Qdotdots_spline[joint]
\* at the N samples of the reference motion (guesses.py lines 203-217)
Qs_spline(seed, joint, k) == R(seed + 10 * (index(allJoints, joint) + 1) + k, 1)

Qdots_spline(seed, joint, k) ==
    R(3 * (seed + 10 * (index(allJoints, joint) + 1) + k) + 1, 1)

Qdotdots_spline(seed, joint, k) ==
    R(3 * (seed + 10 * (index(allJoints, joint) + 1) + k) + 2, 1)

\* np.NaN
NaN == << 0, 0 >>

\* -x
RNeg(x) == << -x[1], x[2] >>

\* joint[:-1] + 'l' for a joint that ends in '_r', joint[:-1] + 'r' for one
\* that ends in '_l', over the coordinates of the model
otherSide ==
    [hip_flexion_l |-> "hip_flexion_r", hip_flexion_r |-> "hip_flexion_l",
     hip_adduction_l |-> "hip_adduction_r", hip_adduction_r |-> "hip_adduction_l",
     hip_rotation_l |-> "hip_rotation_r", hip_rotation_r |-> "hip_rotation_l",
     knee_angle_l |-> "knee_angle_r", knee_angle_r |-> "knee_angle_l",
     ankle_angle_l |-> "ankle_angle_r", ankle_angle_r |-> "ankle_angle_l",
     subtalar_angle_l |-> "subtalar_angle_r",
     subtalar_angle_r |-> "subtalar_angle_l",
     mtp_angle_l |-> "mtp_angle_r", mtp_angle_r |-> "mtp_angle_l",
     arm_flex_l |-> "arm_flex_r", arm_flex_r |-> "arm_flex_l",
     arm_add_l |-> "arm_add_r", arm_add_r |-> "arm_add_l",
     arm_rot_l |-> "arm_rot_r", arm_rot_r |-> "arm_rot_l",
     elbow_flex_l |-> "elbow_flex_r", elbow_flex_r |-> "elbow_flex_l"]

\* variant: the last mesh point takes the first value of the joint itself
lastMeshPoint_sameSide(g, js, periodicJointsA, oppositeJoints) ==
    [joint \in Range(js) |->
        IF joint \in Range(periodicJointsA) THEN g[joint][0]
        ELSE IF joint \in Range(oppositeJoints) THEN RNeg(g[joint][0])
        ELSE NaN]

\* guesses.py lines 242-256 and 283-298: the row added at mesh point N
lastMeshPoint(g, js, periodicJointsA, oppositeJoints) ==
    [joint \in Range(js) |->
        IF joint \in Range(periodicJointsA)
          THEN IF joint \in DOMAIN otherSide THEN g[otherSide[joint]][0]
               ELSE g[joint][0]
        ELSE IF joint \in Range(oppositeJoints) THEN RNeg(g[joint][0])
        ELSE NaN]

\* guesses.py lines 228-267, with startNotAdjusted = 0
dataDrivenPosition(seed, js, N, scaling, periodicJointsA, oppositeJoints) ==
    LET g  == [joint \in Range(js) |->
                 [k \in 0..(N - 1) |-> RDiv(Qs_spline(seed, joint, k), scaling)]]
        gN == lastMeshPoint(g, js, periodicJointsA, oppositeJoints)
        dx == RSub(g["pelvis_tx"][N - 1], g["pelvis_tx"][N - 2])
        tN == RAdd(g["pelvis_tx"][N - 1], dx)
        all == [joint \in Range(js) |->
                  [k \in 0..N |->
                      IF k < N THEN g[joint][k]
                      ELSE IF joint = "pelvis_tx" THEN tN ELSE gN[joint]]]
    IN  [joint \in Range(js) |->
            [k \in 0..N |->
                IF joint = "pelvis_tx"
                  THEN RSub(all[joint][k], all["pelvis_tx"][0])
                  ELSE all[joint][k]]]

\* guesses.py lines 269-300
dataDrivenVelocity(seed, js, N, scaling, periodicJointsA, oppositeJoints) ==
    LET g  == [joint \in Range(js) |->
                 [k \in 0..(N - 1) |->
                     RDiv(Qdots_spline(seed, joint, k), scaling)]]
        gN == lastMeshPoint(g, js, periodicJointsA, oppositeJoints)
    IN  [joint \in Range(js) |->
            [k \in 0..N |-> IF k < N THEN g[joint][k] ELSE gN[joint]]]

\* guesses.py lines 302-322, with null = 'no'
dataDrivenAcceleration(seed, js, N, scaling) ==
    [joint \in Range(js) |->
        [k \in 0..(N - 1) |-> RDiv(Qdotdots_spline(seed, joint, k), scaling)]]

\* a guess of rows rows that holds g / scaling in every column: guesses.py
\* lines 58-117 and 324-375
constantGuess(columns, rows, g, scaling) ==
    [c \in columns |-> [k \in 0..(rows - 1) |-> RDiv(g, scaling)]]

\* variant: the collocation points are the outer loop
appendedRows_byCollocation(N, d) ==
    LET RECURSIVE inner(_)
        inner(c) == IF c = d THEN << >>
                    ELSE [k \in 1..N |-> k - 1] \o inner(c + 1)
    IN  inner(0)

\* guesses.py lines 120-184 and 378-442: the mesh-point rows in the order in
\* which "for k in range(N): for c in range(d): append(guess.iloc[k])"
\* appends them
appendedRows(N, d) ==
    LET RECURSIVE outer(_)
        outer(k) == IF k = N THEN << >>
                    ELSE [c \in 1..d |-> k] \o outer(k + 1)
    IN  outer(0)

\* the guess at the collocation points made of those rows
getGuessCol(meshGuess, N, d) ==
    LET rows == appendedRows(N, d)
    IN  [c \in DOMAIN meshGuess |->
            [r \in 0..(Len(rows) - 1) |-> meshGuess[c][rows[r + 1]]]]

\* largest number of collocation points per interval of the guess model
MaxGuessD == 2

NoQin == [class |-> "none", N |-> 0, d |-> 0, withMTP |-> FALSE,
          targetSpeed |-> RZero, scaling |-> RZero, Qs |-> 0]

\* guesses.py lines 7-12 and 189-201: the object keeps its arguments; N >= 2,
\* as getGuessPosition reads the last two of N samples
GuessInit ==
    /\ qpc = "finalTime"
    /\ qin \in [class : {"quasiRandomGuess", "dataDrivenGuess"},
                N : 2..MaxGuessN, d : 1..MaxGuessD, withMTP : BOOLEAN,
                targetSpeed : TargetSpeeds, scaling : Scalings,
                Qs : ReferenceMotions]
    /\ guessFinalTime = RZero
    /\ guessPosition = << >>
    /\ guessVelocity = << >>
    /\ guessMesh = << >>
    /\ guessCol = << >>

GuessIdle ==
    /\ qpc = "idle"
    /\ qin = NoQin
    /\ guessFinalTime = RZero
    /\ guessPosition = << >>
    /\ guessVelocity = << >>
    /\ guessMesh = << >>
    /\ guessCol = << >>

\* main.py line 683
GetGuessFinalTime ==
    /\ qpc = "finalTime"
    /\ guessFinalTime' = getGuessFinalTime(qin.targetSpeed)
    /\ qpc' = "muscles"
    /\ UNCHANGED << qin, guessPosition, guessVelocity, guessMesh, guessCol >>
    /\ UNCHANGED outsideGuess

\* main.py lines 686-689: activations and forces of the muscles, at the mesh
\* points and at the collocation points
GetGuessMuscleStates ==
    /\ qpc = "muscles"
    /\ LET gA == constantGuess(1..nMuscles, qin.N + 1, R(1, 10), qin.scaling)
           gF == constantGuess(1..nMuscles, qin.N + 1, R(1, 10), qin.scaling)
       IN  /\ guessMesh' = guessMesh @@ ("Activation" :> gA) @@ ("Force" :> gF)
           /\ guessCol' = guessCol
                            @@ ("Activation" :> getGuessCol(gA, qin.N, qin.d))
                            @@ ("Force" :> getGuessCol(gF, qin.N, qin.d))
    /\ qpc' = "position"
    /\ UNCHANGED << qin, guessFinalTime, guessPosition, guessVelocity >>
    /\ UNCHANGED outsideGuess

\* main.py line 690
GetGuessPosition ==
    /\ qpc = "position"
    /\ guessPosition' =
         IF qin.class = "quasiRandomGuess"
           THEN getGuessPosition(joints(qin.withMTP), qin.N, guessFinalTime,
                                 qin.targetSpeed, qin.scaling)
           ELSE dataDrivenPosition(qin.Qs, joints(qin.withMTP), qin.N,
                                   qin.scaling, periodicQsJointsA(qin.withMTP),
                                   periodicOppositeJoints)
    /\ qpc' = "positionCol"
    /\ UNCHANGED << qin, guessFinalTime, guessVelocity, guessMesh, guessCol >>
    /\ UNCHANGED outsideGuess

\* main.py line 691
GetGuessPositionCol ==
    /\ qpc = "positionCol"
    /\ guessCol' = guessCol
                     @@ ("Position" :> getGuessCol(guessPosition, qin.N, qin.d))
    /\ qpc' = "velocity"
    /\ UNCHANGED << qin, guessFinalTime, guessPosition, guessVelocity,
                    guessMesh >>
    /\ UNCHANGED outsideGuess

\* main.py line 692
GetGuessVelocity ==
    /\ qpc = "velocity"
    /\ guessVelocity' =
         IF qin.class = "quasiRandomGuess"
           THEN getGuessVelocity(joints(qin.withMTP), qin.N, qin.targetSpeed,
                                 qin.scaling)
           ELSE dataDrivenVelocity(qin.Qs, joints(qin.withMTP), qin.N,
                                   qin.scaling, periodicQdsJointsA(qin.withMTP),
                                   periodicOppositeJoints)
    /\ qpc' = "velocityCol"
    /\ UNCHANGED << qin, guessFinalTime, guessPosition, guessMesh, guessCol >>
    /\ UNCHANGED outsideGuess

\* main.py line 693
GetGuessVelocityCol ==
    /\ qpc = "velocityCol"
    /\ guessCol' = guessCol
                     @@ ("Velocity" :> getGuessCol(guessVelocity, qin.N, qin.d))
    /\ qpc' = "arms"
    /\ UNCHANGED << qin, guessFinalTime, guessPosition, guessVelocity,
                    guessMesh >>
    /\ UNCHANGED outsideGuess

\* main.py lines 694-699: activations of the arm actuators, and the controls
GetGuessArmsAndControls ==
    /\ qpc = "arms"
    /\ LET gArmA == constantGuess(Range(armJoints), qin.N + 1, R(1, 10), R(1, 1))
           gADt  == constantGuess(1..nMuscles, qin.N, R(1, 100), qin.scaling)
           gArmE == constantGuess(Range(armJoints), qin.N, R(1, 10), R(1, 1))
       IN  /\ guessMesh' = guessMesh
                             @@ ("TorqueActuatorActivation" :> gArmA)
                             @@ ("ActivationDerivative" :> gADt)
                             @@ ("TorqueActuatorExcitation" :> gArmE)
           /\ guessCol' = guessCol
                            @@ ("TorqueActuatorActivation"
                                  :> getGuessCol(gArmA, qin.N, qin.d))
    /\ qpc' = "slack"
    /\ UNCHANGED << qin, guessFinalTime, guessPosition, guessVelocity >>
    /\ UNCHANGED outsideGuess

\* main.py lines 702-705: the slack controls
GetGuessSlackControls ==
    /\ qpc = "slack"
    /\ LET gQdds == IF qin.class = "quasiRandomGuess"
                      THEN constantGuess(Range(joints(qin.withMTP)), qin.N,
                                         RZero, qin.scaling)
                      ELSE dataDrivenAcceleration(qin.Qs, joints(qin.withMTP),
                                                  qin.N, qin.scaling)
           gFDt  == constantGuess(1..nMuscles, qin.N, R(1, 100), qin.scaling)
       IN  /\ guessMesh' = guessMesh @@ ("Acceleration" :> gQdds)
                                     @@ ("ForceDerivative" :> gFDt)
           /\ guessCol' = guessCol
                            @@ ("Acceleration" :> getGuessCol(gQdds, qin.N, qin.d))
                            @@ ("ForceDerivative"
                                  :> getGuessCol(gFDt, qin.N, qin.d))
    /\ qpc' = "done"
    /\ UNCHANGED << qin, guessFinalTime, guessPosition, guessVelocity >>
    /\ UNCHANGED outsideGuess

GuessNext ==
    \/ GetGuessFinalTime
    \/ GetGuessMuscleStates
    \/ GetGuessPosition
    \/ GetGuessPositionCol
    \/ GetGuessVelocity
    \/ GetGuessVelocityCol
    \/ GetGuessArmsAndControls
    \/ GetGuessSlackControls

(***************************************************************************)
(* The time grid of the gait cycle (src/main.py lines 1454-1458).          *)
(***************************************************************************)
\* line 1455: tgrid = np.linspace(0, finalTime_opt[0], N+1)
tgrid(finalTime, N) == linspace(RZero, finalTime, N + 1)

\* lines 1456-1458: the first N instants, then the same shifted by the last
ReconstructedTime(finalTime, N) ==
    LET t == tgrid(finalTime, N)
    IN  [i \in 0..(2 * N - 1) |->
           IF i < N THEN t[i] ELSE RAdd(t[i - N], t[N])]

\* line 1455 reads the duration of the solution, which is any of FinalTimes
ReconstructTime ==
    /\ gpc = "tgrid"
    /\ \E finalTime \in FinalTimes :
         /\ finalTime_opt' = finalTime
         /\ tgrid_GC' = ReconstructedTime(finalTime, gin.N)
    /\ gpc' = "done"
    /\ UNCHANGED << gin, Qs_GC, Qds_GC, Qdds_GC, A_GC, F_GC, FDt_GC, aArm_GC >>
    /\ UNCHANGED outsideGC

GCNext ==
    \/ ReconstructQs
    \/ ReconstructQds
    \/ ReconstructQdds
    \/ ReconstructA
    \/ ReconstructF
    \/ ReconstructFDt
    \/ ReconstructArm
    \/ ReconstructTime

(***************************************************************************)
(* The set-up of a case (src/main.py lines 57-465).                        *)
(***************************************************************************)
\* the longest list of cases of a run of the set-up
MaxSetupCases == 2

\* the options of a settings record that have a default (lines 61-140)
Options ==
    { "model", "knee_axis", "adjustAchillesTendonStiffness", "withMTP",
      "contactConfiguration", "dampingMtp", "targetSpeed", "guessType",
      "metabolicEnergyRateTerm", "activationTerm", "jointAccelerationTerm",
      "armExcitationTerm", "passiveTorqueTerm", "controls",
      "tol", "N", "d", "nThreads" }

\* the defaults the script assigns before it looks at the record; knee_axis
\* is a string, held here as the tuple of its parts ('' is the empty tuple)
DefaultSettings ==
    [ model |-> "new_model", knee_axis |-> << >>,
      adjustAchillesTendonStiffness |-> FALSE, withMTP |-> TRUE,
      contactConfiguration |-> "generic", dampingMtp |-> R(4, 10),
      targetSpeed |-> R(133, 100), guessType |-> "coldStart",
      metabolicEnergyRateTerm |-> R(500, 1), activationTerm |-> R(2000, 1),
      jointAccelerationTerm |-> R(50000, 1),
      armExcitationTerm |-> R(1000000, 1), passiveTorqueTerm |-> R(1000, 1),
      controls |-> R(1, 1000),
      tol |-> 4, N |-> 50, d |-> 3, nThreads |-> 10 ]

\* a record that sets every option away from its default
EveryOptionSet ==
    [ model |-> "old_model", knee_axis |-> "KA1",
      adjustAchillesTendonStiffness |-> TRUE,
      AchillesTendonStiffness |-> R(35, 2), withMTP |-> FALSE,
      contactConfiguration |-> "specific", dampingMtp |-> R(2, 1),
      targetSpeed |-> R(3, 2), guessType |-> "dataDriven",
      metabolicEnergyRateTerm |-> R(1, 1), activationTerm |-> R(2, 1),
      jointAccelerationTerm |-> R(3, 1), armExcitationTerm |-> R(4, 1),
      passiveTorqueTerm |-> R(5, 1), controls |-> R(6, 1),
      tol |-> 3, N |-> 100, d |-> 2, nThreads |-> 4, modelMass |-> 62 ]

\* the settings records a case may have: each holds the required modelMass,
\* and AchillesTendonStiffness whenever it asks for the adjustment
SettingsRecords ==
    { [modelMass |-> 62],
      EveryOptionSet,
      [modelMass |-> 62, withMTP |-> FALSE],
      [modelMass |-> 62, adjustAchillesTendonStiffness |-> TRUE,
       AchillesTendonStiffness |-> R(28, 1)],
      [modelMass |-> 62, adjustAchillesTendonStiffness |-> TRUE,
       AchillesTendonStiffness |-> R(35, 2), N |-> 100],
      [modelMass |-> 62, adjustAchillesTendonStiffness |-> FALSE,
       AchillesTendonStiffness |-> R(20, 1), withMTP |-> TRUE,
       guessType |-> "quasiRandom"] }

\* the value the script assigns from the record (line 67: knee_axis is
\* prefixed with an underscore)
recordValue(rec, o) ==
    IF o = "knee_axis" THEN << "_", rec[o] >> ELSE rec[o]

\* the settings record of the current case
caseSettings == scases[si]

\* muscleData.py lines 68-73: np.full((1, NSideMuscles), 35), an array of
\* integers
tendonStiffness(NSideMuscles) == [i \in 1..NSideMuscles |-> 35]

\* line 203
musclesAchillesTendon == << "med_gas_r", "lat_gas_r", "soleus_r" >>

\* lines 204-206 (0-based)
idxMusclesAchillesTendon ==
    [i \in 1..Len(musclesAchillesTendon) |->
        index(rightSideMuscles, musclesAchillesTendon[i])]

\* lines 207-208: what an array of integers keeps of a value assigned to
\* its elements, the value truncated towards zero (numpy casts on
\* assignment to the type of the array)
storedInIntegerArray(x) ==
    IF x[1] >= 0 THEN x[1] \div x[2] ELSE -((-x[1]) \div x[2])

\* lines 199-208: sideTendonStiffness
sideTendonStiffness(rec, adjust) ==
    LET default == tendonStiffness(nSideMuscles)
    IN  IF adjust
          THEN [i \in 1..nSideMuscles |->
                  IF (i - 1) \in Range(idxMusclesAchillesTendon)
                    THEN storedInIntegerArray(rec.AchillesTendonStiffness)
                    ELSE default[i]]
          ELSE default

\* lines 410-420
leftPolynomialJoints(withMTP) ==
    RemoveAll(<< "hip_flexion_l", "hip_adduction_l", "hip_rotation_l",
                 "knee_angle_l", "ankle_angle_l", "subtalar_angle_l",
                 "mtp_angle_l", "lumbar_extension", "lumbar_bending",
                 "lumbar_rotation" >>,
              IF withMTP THEN {} ELSE {mtpJoints[1]})

rightPolynomialJoints(withMTP) ==
    RemoveAll(<< "hip_flexion_r", "hip_adduction_r", "hip_rotation_r",
                 "knee_angle_r", "ankle_angle_r", "subtalar_angle_r",
                 "mtp_angle_r", "lumbar_extension", "lumbar_bending",
                 "lumbar_rotation" >>,
              IF withMTP THEN {} ELSE {mtpJoints[2]})

\* lines 453-454
rightTrunkMuscles == << "ercspn_r", "intobl_r", "extobl_r" >>

leftTrunkMuscles == << "ercspn_l", "intobl_l", "extobl_l" >>

\* line 452 (0-based)
rightPolMuscleIdx ==
    [i \in 1..Len(rightSideMuscles) |-> index(muscles, rightSideMuscles[i])]

\* a left list that took every muscle of the right side, trunk included
leftPolMuscleIdx_allRightSide ==
    [i \in 1..Len(rightSideMuscles) |-> index(muscles, rightSideMuscles[i])]

\* lines 455-458 (0-based)
leftPolMuscleIdx ==
    LET legs == RemoveAll(rightSideMuscles, Range(rightTrunkMuscles))
    IN  [i \in 1..Len(legs) |-> index(muscles, legs[i])]
        \o [i \in 1..Len(leftTrunkMuscles) |->
              index(muscles, leftTrunkMuscles[i])]

SetupInit ==
    /\ spc = "settings"
    /\ \E n \in 1..MaxSetupCases : scases \in [1..n -> SettingsRecords]
    /\ si = 1
    /\ conf = << >>
    /\ lists = << >>
    /\ mainTendonStiffness = << >>
    /\ polIdx = << >>

SetupIdle ==
    /\ spc = "idle"
    /\ scases = << >>
    /\ si = 0
    /\ conf = << >>
    /\ lists = << >>
    /\ mainTendonStiffness = << >>
    /\ polIdx = << >>

\* a script that assigned a default only to a variable not yet bound
ReadCaseSettings_carried ==
    /\ spc = "settings"
    /\ conf' = [o \in Options |->
                  IF o \in DOMAIN caseSettings
                    THEN recordValue(caseSettings, o)
                    ELSE IF o \in DOMAIN conf THEN conf[o]
                                              ELSE DefaultSettings[o]]
    /\ spc' = "muscles"
    /\ UNCHANGED << scases, si, lists, mainTendonStiffness, polIdx >>
    /\ UNCHANGED outsideSetup

\* lines 61-140: every option is given its default, then the value of the
\* record when the record has the option
ReadCaseSettings ==
    /\ spc = "settings"
    /\ conf' = [o \in Options |->
                  IF o \in DOMAIN caseSettings
                    THEN recordValue(caseSettings, o)
                    ELSE DefaultSettings[o]]
    /\ spc' = "muscles"
    /\ UNCHANGED << scases, si, lists, mainTendonStiffness, polIdx >>
    /\ UNCHANGED outsideSetup

\* lines 197-210: the tendon stiffness of the left and of the right side
SetTendonStiffness ==
    /\ spc = "muscles"
    /\ LET side == sideTendonStiffness(caseSettings,
                                       conf.adjustAchillesTendonStiffness)
       IN  mainTendonStiffness' = side \o side
    /\ spc' = "joints"
    /\ UNCHANGED << scases, si, conf, lists, polIdx >>
    /\ UNCHANGED outsideSetup

\* assignment to the variables named in 'new'; the others keep their value
assigned(bound, new) ==
    [k \in DOMAIN bound \cup DOMAIN new |->
        IF k \in DOMAIN new THEN new[k] ELSE bound[k]]

\* lines 239-388: the joint lists, each a new list of the iteration
BuildJointLists ==
    /\ spc = "joints"
    /\ lists' = assigned(lists,
         [ joints |-> joints(conf.withMTP),
           rotationalJoints |-> rotationalJoints(conf.withMTP),
           periodicQsJointsA |-> periodicQsJointsA(conf.withMTP),
           periodicQsJointsB |-> periodicQsJointsB(conf.withMTP),
           periodicQdsJointsA |-> periodicQdsJointsA(conf.withMTP),
           periodicQdsJointsB |-> periodicQdsJointsB(conf.withMTP),
           periodicOppositeJoints |-> periodicOppositeJoints,
           periodicArmJoints |-> periodicArmJoints,
           passiveTorqueJoints |-> passiveTorqueJoints(conf.withMTP) ])
    /\ spc' = "polynomials"
    /\ UNCHANGED << scases, si, conf, mainTendonStiffness, polIdx >>
    /\ UNCHANGED outsideSetup

\* lines 410-458: the joints and the muscle indices of the polynomials
BuildPolynomialLists ==
    /\ spc = "polynomials"
    /\ lists' = assigned(lists,
         [ leftPolynomialJoints |-> leftPolynomialJoints(conf.withMTP),
           rightPolynomialJoints |-> rightPolynomialJoints(conf.withMTP) ])
    /\ polIdx' = [right |-> rightPolMuscleIdx, left |-> leftPolMuscleIdx]
    /\ spc' = "end"
    /\ UNCHANGED << scases, si, conf, mainTendonStiffness >>
    /\ UNCHANGED outsideSetup

\* line 57: the next iteration of the loop; no variable is unbound
NextSetupCase ==
    /\ spc = "end"
    /\ si < Len(scases)
    /\ si' = si + 1
    /\ spc' = "settings"
    /\ UNCHANGED << scases, conf, lists, mainTendonStiffness, polIdx >>
    /\ UNCHANGED outsideSetup

SetupNext ==
    \/ ReadCaseSettings
    \/ SetTendonStiffness
    \/ BuildJointLists
    \/ BuildPolynomialLists
    \/ NextSetupCase

vars == << runVars, layVars, gcVars, costVars, nlpVars, guessVars,
          setupVars >>

Init == RunInit /\ LayIdle /\ GCIdle /\ CostIdle /\ NlpIdle /\ GuessIdle
    /\ SetupIdle

Next == RunNext

Spec == Init /\ [][Next]_vars

InitLayout == LayInit /\ RunIdle /\ GCIdle /\ CostIdle /\ NlpIdle /\ GuessIdle
    /\ SetupIdle

SpecLayout == InitLayout /\ [][LayNext]_vars

InitGC == GCInit /\ RunIdle /\ LayIdle /\ CostIdle /\ NlpIdle /\ GuessIdle
    /\ SetupIdle

SpecGC == InitGC /\ [][GCNext]_vars

InitCost == CostInit /\ RunIdle /\ LayIdle /\ GCIdle /\ NlpIdle /\ GuessIdle
    /\ SetupIdle

SpecCost == InitCost /\ [][CostNext]_vars

InitNlp == NlpInit /\ RunIdle /\ LayIdle /\ GCIdle /\ CostIdle /\ GuessIdle
    /\ SetupIdle

SpecNlp == InitNlp /\ [][NlpNext]_vars

InitGuess == GuessInit /\ RunIdle /\ LayIdle /\ GCIdle /\ CostIdle /\ NlpIdle
    /\ SetupIdle

SpecGuess == InitGuess /\ [][GuessNext]_vars

InitSetup ==
    SetupInit /\ RunIdle /\ LayIdle /\ GCIdle /\ CostIdle /\ NlpIdle
    /\ GuessIdle

SpecSetup == InitSetup /\ [][SetupNext]_vars

(***************************************************************************)
(* Properties.                                                             *)
(***************************************************************************)
\* a family whose assertions are skipped under the configured guess type
Exempt(f) == f \in {"Qs", "Qs_col"} /\ cfg.guessType = "coldStart"

C2_AbortBeforeSolve ==
    /\ (\E f \in Range(Families) : opti[f] = "outside" /\ ~Exempt(f)) =>
         (pc = "aborted" /\ abortAt = "guessBounds")
    /\ (pc = "aborted" /\ abortAt = "guessBounds") =>
         /\ cur \notin solved
         /\ cur \notin reconstructed
         /\ \A w \in wrote : w[1] # cur
         /\ disk[cur].origin # "fresh"
         /\ store[cur].origin # "run"

\* the second case of a run is aborted by a guess check after the first case
\* has written its artifacts
C2_Witness ==
    /\ pc = "aborted"
    /\ abortAt = "guessBounds"
    /\ ci = 2
    /\ << cases[1], "trajectories" >> \in wrote
    /\ \E f \in Range(Families) : opti[f] = "outside" /\ ~Exempt(f)

\* C3: once the extraction is through, every extracted array is the declared
\* variable of the same name, entry by entry (same order, same sizes, slices
\* disjoint and covering the vector); the extraction is aborted exactly when
\* the vector does not have the declared length.
C3_SplitMatchesDeclaration ==
    /\ lpc = "done" =>
         /\ Len(w_opt) = Len(optx)
         /\ starti = Len(w_opt)
         /\ DOMAIN xout = Range(Families)
         /\ \A f \in Range(Families) :
              LET sh == DeclShape(f, dims)
              IN  xout[f] = Sym(f, sh[1], sh[2])
    /\ lpc = "aborted" => Len(w_opt) # Len(optx)

\* a solution with more muscles than arm joints on the largest mesh has been
\* split
C3_Witness ==
    /\ lpc = "done"
    /\ dims.N = MaxMesh
    /\ dims.d = MaxD
    /\ dims.nMuscles = 2
    /\ dims.nArmJoints = 1

\* C4: a case that is past the speed check, and every record the run puts in
\* the aggregate store, has |averageSpeed - targetSpeed| < 10^(-tol); a run
\* aborted by the speed check missed the target by 10^(-tol) or more and has
\* neither reconstructed nor recorded the case.
C4_SpeedGate ==
    /\ pc \in {"torque", "heelstrike", "reconstruct"} =>
         mem.speedErr < TenToMinus(cfg.tol)
    /\ (cur \in reconstructed /\ cfg # NoCfg) =>
         mem.speedErr < TenToMinus(cfg.tol)
    /\ \A c \in StoreIds :
         store[c].origin = "run" => ~store[c].speedMissed
    /\ (pc = "aborted" /\ abortAt = "speed") =>
         /\ mem.speedErr >= TenToMinus(cfg.tol)
         /\ cur \notin reconstructed
         /\ store[cur].origin # "run"

\* a reconstructed case has been recorded in the aggregate store
C4_Witness ==
    \E c \in CaseIds : c \in reconstructed /\ store[c].origin = "run"

\* C5: for every solution, the eight totals of the decomposition add up to
\* the objective the transcription defines under the same weights; a run
\* that goes on after a successful solve has a difference of at most 1e-6,
\* and the comparison aborts only a successful solve with a larger one.
C5_DecompositionMatchesObjective ==
    /\ (cpc \in {"compare", "done", "aborted"} /\ cin.weights = cin.solvedWith)
         => JAll_opt(terms_opt_all) = obj
    /\ (cpc = "done" /\ cin.success) =>
         RAtMostOneOver(RAbsDiff(JAll_opt(terms_opt_all), obj), CostTolInv)
    /\ cpc = "aborted" =>
         /\ cin.success
         /\ ~RAtMostOneOver(RAbsDiff(JAll_opt(terms_opt_all), obj), CostTolInv)

\* a converged solution on the largest mesh has been decomposed and compared
C5_Witness ==
    /\ cpc = "done"
    /\ cin.success
    /\ cin.weights = cin.solvedWith
    /\ cin.N = MaxMesh
    /\ cin.d = MaxD
    /\ obj[1] > 0

\* C6 (as stated): a sample of the gait cycle whose Hill residual exceeds
\* 10^(-tol) after a successful solve aborts the run.
C6_HillAbortsAboveTolerance ==
    (pc \in {"hill", "decompose", "motion", "store", "nextcase", "aborted"}
       /\ mem.success /\ hillRes > TenToMinus(cfg.tol))
      => (pc = "aborted" /\ abortAt = "hill")

\* C7 (as stated): after a solve that did not report success, no post-solve
\* check aborts the run.
C7_NoAbortWithoutSuccess ==
    ~(/\ pc = "aborted"
      /\ abortAt \in {"speed", "arm", "mtp", "hill", "cost"}
      /\ ~mem.success)

\* C8 (as stated): an undefined heel-strike leg aborts the run: the case is
\* not reconstructed and neither its record nor its motion file is written.
C8_UndefinedLegAborts ==
    legIC = "undefined" =>
      /\ pc = "aborted"
      /\ cur \notin reconstructed
      /\ << cur, "trajectories" >> \notin wrote
      /\ << cur, "motion" >> \notin wrote

\* the three column ranges of a family cut at index s follow one another
\* without gap or overlap from column 0 to column 2N, the middle one N wide
ThreeSegments(N, s) ==
    LET c1 == Seg1Cols(N, s)
        c2 == MirCols(N, s)
        c3 == Seg3Cols(N, s)
    IN  /\ c1[1] = 0
        /\ c1[2] = c2[1]
        /\ c2[2] = c3[1]
        /\ c3[2] = 2 * N
        /\ c2[2] - c2[1] = N
        /\ c1[2] - c1[1] = N - s
        /\ c3[2] - c3[1] = s

\* the array G has the given number of rows, 2N columns, and no entry at
\* zero outside the rows in except
Filled(G, rows, N, except) ==
    /\ DOMAIN G = 0..(rows - 1)
    /\ \A r \in DOMAIN G :
         /\ DOMAIN G[r] = 0..(2 * N - 1)
         /\ r \notin except => \A c \in DOMAIN G[r] : G[r][c] # 0

\* C9: for every heel-strike index the three segments of the state families
\* (cut at idxIC + 1) and of the interval families (cut at idxIC) partition
\* the 2N columns; the rows of the mirrored half partition the joints into
\* permuted, sign-flipped and pelvis_tx; no assignment is refused for its
\* shape and every reconstructed array is filled (pelvis_tx, whose values
\* may be zero, aside).
C9_CycleCovered ==
    gpc # "idle" =>
      LET N   == gin.N
          mtp == gin.withMTP
          nJ  == nJoints(mtp)
          tx  == index(joints(mtp), "pelvis_tx")
          A   == Range(idxPerQsJointsA(mtp))
          Ad  == Range(idxPerQdsJointsA(mtp))
          O   == Range(idxPerOppJoints(mtp))
      IN  /\ gpc # "aborted"
          /\ ThreeSegments(N, idxIC_s(gin.idxIC))
          /\ ThreeSegments(N, idxIC_c(gin.idxIC))
          /\ A \cap O = {}
          /\ tx \notin A \cup O
          /\ A \cup O \cup {tx} = 0..(nJ - 1)
          /\ Cardinality(A) = Len(idxPerQsJointsA(mtp))
          /\ Ad \cap O = {}
          /\ Ad \cup O = 0..(nJ - 1)
          /\ Cardinality(Ad) = Len(idxPerQdsJointsA(mtp))
          /\ Range(idxPerMuscles) = 0..(nMuscles - 1)
          /\ Range(idxPerArmJoints) = 0..(nArmJoints - 1)
          /\ Qs_GC # << >> => Filled(Qs_GC, nJ, N, {tx})
          /\ Qds_GC # << >> => Filled(Qds_GC, nJ, N, {})
          /\ Qdds_GC # << >> => Filled(Qdds_GC, nJ, N, {})
          /\ A_GC # << >> => Filled(A_GC, nMuscles, N, {})
          /\ F_GC # << >> => Filled(F_GC, nMuscles, N, {})
          /\ FDt_GC # << >> => Filled(FDt_GC, nMuscles, N, {})
          /\ aArm_GC # << >> => Filled(aArm_GC, nArmJoints, N, {})

\* every array of a cycle that starts with the left leg, cut inside the
\* half cycle, has been reconstructed
C9_Witness ==
    /\ gpc = "done"
    /\ gin.N = MaxNGC
    /\ gin.idxIC = MaxNGC - 1
    /\ gin.legIC = "left"
    /\ gin.withMTP

\* C10: once the joint positions are reconstructed, pelvis_tx is exactly
\* zero at sample 0 of the cycle.
C10_ForwardTranslationStartsAtZero ==
    Qs_GC # << >> =>
      Qs_GC[index(joints(gin.withMTP), "pelvis_tx")][0] = 0

\* the cycle of a left-leg heel strike starts at a mesh point where the
\* half-cycle solution has a non-zero pelvis_tx
C10_Witness ==
    /\ Qs_GC # << >>
    /\ gin.legIC = "left"
    /\ gin.N = MaxNGC
    /\ gin.idxIC = 0
    /\ gin.tx[idxIC_s(gin.idxIC)] # 0
    /\ gin.tx[gin.N] # gin.tx[idxIC_s(gin.idxIC)]

\* rows A of the array G at the midpoint sample N carry what rows B carry at
\* sample 0, position by position
MirroredAtMidpoint(G, rowsA, rowsB, N) ==
    \A i \in 1..Len(rowsA) : G[rowsA[i]][N] = G[rowsB[i]][0]

\* C11: in the reconstructed cycle, every mirrored joint has at sample N the
\* position (velocity) its permuted counterpart has at sample 0, every
\* sign-flipped joint has at sample N minus its own position (velocity) at
\* sample 0, and every muscle activation, tendon force and arm activation
\* has at sample N the value of its permuted counterpart at sample 0.
C11_MidpointMirrorsStart ==
    LET N   == gin.N
        mtp == gin.withMTP
        O   == idxPerOppJoints(mtp)
    IN  /\ Qs_GC # << >> =>
             /\ MirroredAtMidpoint(Qs_GC, idxPerQsJointsA(mtp),
                                   idxPerQsJointsB(mtp), N)
             /\ \A i \in 1..Len(O) : Qs_GC[O[i]][N] = -Qs_GC[O[i]][0]
        /\ Qds_GC # << >> =>
             /\ MirroredAtMidpoint(Qds_GC, idxPerQdsJointsA(mtp),
                                   idxPerQdsJointsB(mtp), N)
             /\ \A i \in 1..Len(O) : Qds_GC[O[i]][N] = -Qds_GC[O[i]][0]
        /\ A_GC # << >> =>
             MirroredAtMidpoint(A_GC, AllRows(nMuscles), idxPerMuscles, N)
        /\ F_GC # << >> =>
             MirroredAtMidpoint(F_GC, AllRows(nMuscles), idxPerMuscles, N)
        /\ aArm_GC # << >> =>
             MirroredAtMidpoint(aArm_GC, AllRows(nArmJoints),
                                idxPerArmJoints, N)

\* a cycle that starts with the right leg at the last mesh point of the half
\* cycle, so that sample 0 already lies in the mirrored half, is complete,
\* and a muscle and its counterpart differ at sample 0
C11_Witness ==
    /\ gpc = "done"
    /\ gin.legIC = "right"
    /\ gin.N = MaxNGC
    /\ gin.idxIC = gin.N - 1
    /\ ~gin.withMTP
    /\ A_GC[0][0] # A_GC[idxPerMuscles[1]][0]
    /\ Qs_GC[idxPerOppJoints(FALSE)[1]][0] # 0

\* what pelvis_tx gains from the sample before column c of the cycle to the
\* sample at column c
SeamAdvance(c) ==
    LET row == Qs_GC[index(joints(gin.withMTP), "pelvis_tx")]
    IN  row[c] - row[c - 1]

SidePairs ==
    { << "hip_flexion_l", "hip_flexion_r" >>,
      << "hip_adduction_l", "hip_adduction_r" >>,
      << "hip_rotation_l", "hip_rotation_r" >>,
      << "knee_angle_l", "knee_angle_r" >>,
      << "ankle_angle_l", "ankle_angle_r" >>,
      << "subtalar_angle_l", "subtalar_angle_r" >>,
      << "mtp_angle_l", "mtp_angle_r" >>,
      << "arm_flex_l", "arm_flex_r" >>,
      << "arm_add_l", "arm_add_r" >>,
      << "arm_rot_l", "arm_rot_r" >>,
      << "elbow_flex_l", "elbow_flex_r" >> }

\* the same coordinate on the other side of the body, or the coordinate
\* itself if it has no side
Contralateral(j) ==
    IF \E q \in SidePairs : q[1] = j
      THEN (CHOOSE q \in SidePairs : q[1] = j)[2]
      ELSE IF \E q \in SidePairs : q[2] = j
             THEN (CHOOSE q \in SidePairs : q[2] = j)[1]
             ELSE j

\* the periodicity constraints of a family
PeriodicConstraints(f) ==
    {c \in constr : c.kind = "periodic" /\ c.fam = f}

\* the pairing of the rows made by a set of constraints is its own inverse
Involution(S) ==
    \A c \in S : \E c2 \in S : c2.row = c.other /\ c2.other = c.row

\* every row 0..n-1 but those in except appears in exactly one constraint of
\* S, and those in except in none
OnePerRow(S, n, except) ==
    \A r \in 0..(n - 1) :
      Cardinality({c \in S : c.row = r}) = IF r \in except THEN 0 ELSE 1

\* C13: once the periodicity constraints are set, every position and velocity
\* constraint ties a joint at the final mesh point either to its
\* contralateral joint (itself if it has no side) at the first mesh point,
\* or, for a joint of the opposite list, to minus itself; the relabeling of
\* joints, muscles and arm joints is an involution; every joint but
\* pelvis_tx has exactly one position constraint, every joint one velocity
\* constraint, every muscle one activation and one force constraint, every
\* arm joint one activation constraint.
C13_PeriodicityPairsSides ==
    npc = "done" =>
      LET mtp == nin.withMTP
          js  == joints(mtp)
          nJ  == nJoints(mtp)
          tx  == index(js, "pelvis_tx")
          QQ  == PeriodicConstraints("Qs") \cup PeriodicConstraints("Qds")
      IN  /\ \A c \in QQ :
               /\ c.at = nin.N
               /\ c.from = 0
               /\ \/ /\ c.sgn = -1
                     /\ js[c.other + 1] = Contralateral(js[c.row + 1])
                     /\ js[c.row + 1] \notin Range(periodicOppositeJoints)
                  \/ /\ c.sgn = 1
                     /\ c.other = c.row
                     /\ js[c.row + 1] \in Range(periodicOppositeJoints)
          /\ \A f \in {"a", "normF", "aArm"} :
               \A c \in PeriodicConstraints(f) :
                 c.at = nin.N /\ c.from = 0 /\ c.sgn = -1
          /\ \A f \in {"Qs", "Qds", "a", "normF", "aArm"} :
               Involution(PeriodicConstraints(f))
          /\ \A m \in 0..(nMuscles - 1) :
               idxPerMuscles[idxPerMuscles[m + 1] + 1] = m
          /\ \A m \in 0..(nArmJoints - 1) :
               idxPerArmJoints[idxPerArmJoints[m + 1] + 1] = m
          /\ OnePerRow(PeriodicConstraints("Qs"), nJ, {tx})
          /\ OnePerRow(PeriodicConstraints("Qds"), nJ, {})
          /\ OnePerRow(PeriodicConstraints("a"), nMuscles, {})
          /\ OnePerRow(PeriodicConstraints("normF"), nMuscles, {})
          /\ OnePerRow(PeriodicConstraints("aArm"), nArmJoints, {})

\* the constraints of a model with mtp joints are set, and one of them ties
\* the left mtp joint to the right one
C13_Witness ==
    /\ npc = "done"
    /\ nin.withMTP
    /\ nin.N = MaxMesh
    /\ \E c \in PeriodicConstraints("Qs") :
         /\ allJoints[c.row + 1] = "mtp_angle_l"
         /\ allJoints[c.other + 1] = "mtp_angle_r"

\* the state families, each with the inputs of f_coll that carry its value
\* at the mesh point and at the collocation points of the interval
StateInputs ==
    { << "a", "ak", "aj" >>, << "normF", "normFk", "normFj" >>,
      << "Qs", "Qsk", "Qsj" >>, << "Qds", "Qdsk", "Qdsj" >>,
      << "aArm", "aArmk", "aArmj" >> }

\* the columns input sym of f_coll gets in call k of the mapped function
MappedColumns(k, sym) ==
    LET i == CHOOSE h \in DOMAIN mapped[k] : mapped[k][h].sym = sym
    IN  mapped[k][i].cols

\* the columns of a matrix of n columns that the decomposition reads as the
\* collocation columns of mesh interval k
DecomposedColumns(n, k, d) ==
    LET M == [r \in {0} |-> [c \in 0..(n - 1) |-> c]]
    IN  {Block(M, k, d)[0][j] : j \in 0..(d - 1)}

\* C14: once the continuity constraints are set, every mesh interval k has,
\* for each of the five state families, exactly one continuity constraint,
\* which ties mesh point k+1 to mesh point k and the collocation columns
\* k*d .. (k+1)*d-1; every collocation column lies in the range of exactly
\* one interval; call k of the mapped f_coll gets mesh column k and the same
\* collocation columns, and so does pass k of the cost decomposition.
C14_ContinuityPerInterval ==
    npc \in {"periodic", "done"} =>
      LET N == nin.N
          d == nin.d
          CC(f, k) == {c \in constr : /\ c.kind = "continuity"
                                      /\ c.fam = f
                                      /\ c.from = k}
      IN  /\ \A s \in StateInputs : \A k \in 0..(N - 1) :
               /\ Cardinality(CC(s[1], k)) = 1
               /\ \A c \in CC(s[1], k) :
                    /\ c.at = k + 1
                    /\ c.cols = << k * d, (k + 1) * d >>
                    /\ MappedColumns(k, s[2]) = << k, k + 1 >>
                    /\ MappedColumns(k, s[3]) = c.cols
                    /\ DecomposedColumns(d * N, k, d)
                         = {x \in 0..(d * N - 1) : c.cols[1] <= x /\ x < c.cols[2]}
          /\ \A c \in constr : c.kind = "continuity" => c.from \in 0..(N - 1)
          /\ \A s \in StateInputs : \A x \in 0..(d * N - 1) :
               Cardinality({c \in constr : /\ c.kind = "continuity"
                                           /\ c.fam = s[1]
                                           /\ c.cols[1] <= x
                                           /\ x < c.cols[2]}) = 1

\* all constraints of the largest mesh are set
C14_Witness ==
    /\ npc = "done"
    /\ nin.N = MaxMesh
    /\ nin.d = MaxD
    /\ \E c \in constr : c.kind = "continuity" /\ c.from = MaxMesh - 1

\* the entries of eq_constr that balance torque T at collocation point j
BalancesOf(T, j) ==
    {i \in DOMAIN eq_constr : eq_constr[i].T = T /\ eq_constr[i].node = j}

\* C15: once f_coll has gone through its collocation points, every joint of
\* the model has, at every collocation point, exactly one torque-balance
\* entry: a zero residual for a ground-pelvis joint, a balance with muscle
\* and passive torque for a muscle-driven joint, a balance with its own
\* activation for an arm joint, a balance with passive torque for an mtp
\* joint (present only with mtp joints); the four sets of joints are
\* pairwise disjoint and make up the joint list.
C15_OneTorqueBalancePerJoint ==
    npc \in {"map", "continuity", "periodic", "done"} =>
      LET mtp == nin.withMTP
          js  == joints(mtp)
          GP  == Range(groundPelvisJoints)
          MD  == Range(muscleDrivenJoints)
          AR  == Range(armJoints)
          MT  == IF mtp THEN Range(mtpJoints) ELSE {}
      IN  /\ GP \cap MD = {} /\ GP \cap AR = {} /\ GP \cap MT = {}
          /\ MD \cap AR = {} /\ MD \cap MT = {} /\ AR \cap MT = {}
          /\ GP \cup MD \cup AR \cup MT = Range(js)
          /\ Cardinality(GP) = 6
          /\ MD \cup MT \subseteq Range(passiveTorqueJoints(mtp))
          /\ \A i \in DOMAIN eq_constr : eq_constr[i].node \in 0..(nin.d - 1)
          /\ \A j \in 0..(nin.d - 1) : \A r \in 0..(Len(js) - 1) :
               /\ Cardinality(BalancesOf(r, j)) = 1
               /\ \A i \in BalancesOf(r, j) :
                    LET e == eq_constr[i]
                        n == js[r + 1]
                    IN  /\ e.kind = "residual" <=> n \in GP
                        /\ e.kind = "muscle" <=> n \in MD
                        /\ e.kind = "arm" <=> n \in AR
                        /\ e.kind = "mtp" <=> n \in MT
                        /\ e.kind = "arm" => armJoints[e.act + 1] = n
                        /\ e.kind # "arm" => e.act = -1

\* f_coll of a model with mtp joints has balanced the right mtp joint at its
\* last collocation point
C15_Witness ==
    /\ npc = "done"
    /\ nin.withMTP
    /\ nin.d = MaxD
    /\ \E i \in DOMAIN eq_constr :
         /\ eq_constr[i].kind = "mtp"
         /\ eq_constr[i].node = MaxD - 1
         /\ allJoints[eq_constr[i].T + 1] = "mtp_angle_r"

\* the lists of ls, one after the other
Concat(ls) ==
    LET RECURSIVE cat(_)
        cat(i) == IF i > Len(ls) THEN << >> ELSE ls[i] \o cat(i + 1)
    IN  cat(1)

\* C16: once the index lists are computed, the ten lists of F are two wide
\* and follow one another from index nJoints on without gap or overlap; the
\* three lists of F1 are six wide and follow one another from index nJoints
\* on without gap or overlap; and F1 is declared with nJoints + 18 outputs.
C16_OutputRangesFollowTorques ==
    Fidx # << >> =>
      LET nJ == nJoints(nin.withMTP)
      IN  /\ Len(Fidx.F) = 10
          /\ \A i \in 1..10 : Len(Fidx.F[i]) = 2
          /\ Concat(Fidx.F) = [i \in 1..20 |-> nJ + i - 1]
          /\ Len(Fidx.F1.idxGRF) = 6
          /\ Len(Fidx.F1.idxCalcOr3D) = 6
          /\ Len(Fidx.F1.idxGRM) = 6
          /\ Fidx.F1.idxGRF \o Fidx.F1.idxCalcOr3D \o Fidx.F1.idxGRM
               = [i \in 1..18 |-> nJ + i - 1]
          /\ Fidx.F1.NF1_out = nJ + 18

\* the index lists of a model without mtp joints are computed
C16_Witness ==
    /\ npc = "bounds"
    /\ ~nin.withMTP
    /\ Fidx.F1.idxGRF[1] = 29

\* lines 763-764, 772-773: the decision variable, <<joint, node>>, that
\* opti.bounded pairs with each entry of a bound vector of cols nodes
BoundedVariable(withMTP, cols) ==
    Vec([j \in 0..(nJoints(withMTP) - 1) |-> [k \in 0..(cols - 1) |-> << j, k >>]],
        nJoints(withMTP), cols)

\* C17: once the bounds are set, the bounds of pelvis_tx at mesh point 0 are
\* the special ones, and the bounds of every other joint position at a mesh
\* point and of every joint position at a collocation point are the general
\* ones of its joint.
C17_OnlyFirstPelvisTxIsSpecial ==
    npc \in {"f_coll", "map", "continuity", "periodic", "done"} =>
      LET w   == nin.withMTP
          tx  == index(joints(w), "pelvis_tx")
          atK == BoundedVariable(w, nin.N + 1)
          atJ == BoundedVariable(w, nin.d * nin.N)
      IN  /\ DOMAIN lbQsk = DOMAIN atK /\ DOMAIN ubQsk = DOMAIN atK
          /\ DOMAIN lbQsj = DOMAIN atJ /\ DOMAIN ubQsj = DOMAIN atJ
          /\ \A p \in DOMAIN atK :
                IF atK[p] = << tx, 0 >>
                THEN lbQsk[p] = nin.Qs0[1] /\ ubQsk[p] = nin.Qs0[2]
                ELSE /\ lbQsk[p] = lbQs(w)[atK[p][1]]
                     /\ ubQsk[p] = ubQs(w)[atK[p][1]]
          /\ \A p \in DOMAIN atJ :
                /\ lbQsj[p] = lbQs(w)[atJ[p][1]]
                /\ ubQsj[p] = ubQs(w)[atJ[p][1]]

\* the bounds are set on the longest mesh, and the special bounds of pelvis_tx
\* differ from its general ones
C17_Witness ==
    /\ npc = "f_coll"
    /\ nin.N = MaxMesh
    /\ nin.Qs0[1] # lbQs(nin.withMTP)[index(joints(nin.withMTP), "pelvis_tx")]
    /\ nin.Qs0[2] # ubQs(nin.withMTP)[index(joints(nin.withMTP), "pelvis_tx")]
    /\ lbQsk[index(joints(nin.withMTP), "pelvis_tx") + 1] = nin.Qs0[1]

\* C18: with the module guesses as shipped, whatever guessType the settings
\* give, the driver gets its guess generator: the run is never ended by the
\* import of the generator or by the first use of the guess object.
C18_GuessTypeSelectsGenerator ==
    exports = {"quasiRandomGuess", "dataDrivenGuess", "contactParameterGuess"}
      => abortAt \notin {"import", "guessUndefined"}

\* the piecewise-linear interpolation at x of the table xs -> ys, for x
\* within the table
LinearInterpolation(xs, ys, x) ==
    LET i == CHOOSE h \in 0..19 : RGeq(x, xs[h]) /\ RGeq(xs[h + 1], x)
    IN  RAdd(ys[i], RMul(RDiv(RSub(x, xs[i]), RSub(xs[i + 1], xs[i])),
                         RSub(ys[i + 1], ys[i])))

\* C19: for a target speed within the table, the guess final time is the
\* linear interpolation at the target speed of the table from the 21 speeds
\* 0.73 .. 2.73 to the 21 final times 0.70 .. 0.35.
C19_FinalTimeIsInterpolated ==
    (/\ qpc \notin {"idle", "finalTime"}
     /\ RGeq(qin.targetSpeed, allSpeeds[0])
     /\ RGeq(allSpeeds[20], qin.targetSpeed))
      => guessFinalTime
           = LinearInterpolation(allSpeeds, allFinalTimes, qin.targetSpeed)

\* C20: in the quasi-random guess the unscaled pelvis_tx position at mesh
\* point k is k * targetSpeed * guessFinalTime / N.
C20_PositionRampsAtTargetSpeed ==
    guessPosition # << >> /\ qin.class = "quasiRandomGuess" =>
      \A k \in 0..qin.N :
         RMul(guessPosition["pelvis_tx"][k], qin.scaling)
           = RMul(R(k, qin.N), RMul(qin.targetSpeed, guessFinalTime))

\* the guess at the mesh points of a family
MeshGuess(f) ==
    IF f = "Position" THEN guessPosition
    ELSE IF f = "Velocity" THEN guessVelocity
    ELSE guessMesh[f]

\* C21: every guess at the collocation points has N * d rows, and its row
\* k * d + c is row k of the guess at the mesh points of the same family,
\* for k in 0..N-1 and c in 0..d-1; so no row comes from mesh point N.
C21_CollocationGuessReplicatesMesh ==
    \A f \in DOMAIN guessCol :
       \A col \in DOMAIN guessCol[f] :
          /\ col \in DOMAIN MeshGuess(f)
          /\ DOMAIN guessCol[f][col] = 0..(qin.N * qin.d - 1)
          /\ \A k \in 0..(qin.N - 1), c \in 0..(qin.d - 1) :
                guessCol[f][col][k * qin.d + c] = MeshGuess(f)[col][k]

\* all seven guesses at the collocation points are made, from a data-driven
\* guess with several intervals of several collocation points
C21_Witness ==
    /\ qpc = "done"
    /\ qin.class = "dataDrivenGuess"
    /\ qin.N = MaxGuessN
    /\ qin.d = MaxGuessD
    /\ DOMAIN guessCol = {"Activation", "Force", "Position", "Velocity",
                          "TorqueActuatorActivation", "Acceleration",
                          "ForceDerivative"}
    /\ guessCol["Position"]["pelvis_tilt"][qin.d]
         # guessCol["Position"]["pelvis_tilt"][0]

\* the final mesh node of a data-driven guess g wraps around: periodic joints
\* take the first value of the other side, opposite joints the negative of
\* their own, and no joint is left without a value
WrapsAround(g, periodicA, periodicB, N) ==
    /\ \A joint \in Range(periodicA) : g[joint][N] = g[Contralateral(joint)][0]
    /\ \A joint \in Range(periodicOppositeJoints) :
          g[joint][N] = RNeg(g[joint][0])
    /\ \A joint \in DOMAIN g : g[joint][N] # NaN
    /\ \A i \in 1..Len(periodicA) : g[periodicA[i]][N] = g[periodicB[i]][0]
    /\ \A joint \in Range(periodicOppositeJoints) :
          RAdd(g[joint][N], g[joint][0]) = RZero

\* C22: in the data-driven guess, the positions and the velocities at the
\* final mesh node wrap around, every joint has a value there, the
\* periodicity constraints of the positions and velocities hold for the
\* guess, and pelvis_tx at the final node is the node before plus the last
\* finite difference.
C22_DataDrivenGuessWrapsAround ==
    /\ (qin.class = "dataDrivenGuess" /\ guessPosition # << >>) =>
         /\ WrapsAround(guessPosition, periodicQsJointsA(qin.withMTP),
                        periodicQsJointsB(qin.withMTP), qin.N)
         /\ guessPosition["pelvis_tx"][qin.N]
              = RAdd(guessPosition["pelvis_tx"][qin.N - 1],
                     RSub(guessPosition["pelvis_tx"][qin.N - 1],
                          guessPosition["pelvis_tx"][qin.N - 2]))
    /\ (qin.class = "dataDrivenGuess" /\ guessVelocity # << >>) =>
         WrapsAround(guessVelocity, periodicQdsJointsA(qin.withMTP),
                     periodicQdsJointsB(qin.withMTP), qin.N)

\* a data-driven guess of the positions and velocities of a model with mtp
\* joints, whose left and right hips start at different angles
C22_Witness ==
    /\ qin.class = "dataDrivenGuess"
    /\ qin.withMTP
    /\ guessVelocity # << >>
    /\ guessPosition["hip_flexion_l"][0] # guessPosition["hip_flexion_r"][0]
    /\ guessPosition["hip_flexion_l"][qin.N] = guessPosition["hip_flexion_r"][0]
    /\ guessPosition["pelvis_tx"][qin.N] # RZero

\* what a step of the run writes: the artifacts of the current case only,
\* each one for the first time, from its own statement, and one file group
\* per step
WritesInOrder ==
    /\ wrote' \ wrote \subseteq {cur} \X {"w_opt", "stats", "motion", "trajectories"}
    /\ disk' # disk =>
         /\ pc = "save" /\ cur \in solved
         /\ mem.origin = "fresh" /\ mem.case = cur
         /\ << cur, "w_opt" >> \notin wrote /\ << cur, "stats" >> \notin wrote
         /\ {<< cur, "w_opt" >>, << cur, "stats" >>} \subseteq wrote'
         /\ motion' = motion /\ store' = store
    /\ (motion' # motion \/ << cur, "motion" >> \in wrote' \ wrote) =>
         /\ pc = "motion" /\ cur \in reconstructed /\ kGC = 0
         /\ << cur, "motion" >> \notin wrote
         /\ disk' = disk /\ store' = store
    /\ (store' # store \/ << cur, "trajectories" >> \in wrote' \ wrote) =>
         /\ pc = "store" /\ cur \in reconstructed /\ kGC = 0
         /\ << cur, "trajectories" >> \notin wrote
         /\ disk' = disk /\ motion' = motion
    /\ (pc = "save" /\ sw.saveResults) => << cur, "w_opt" >> \notin wrote
    /\ (pc = "motion" /\ sw.writeMotionFiles) => << cur, "motion" >> \notin wrote
    /\ (pc = "store" /\ sw.saveOptimalTrajectories)
         => << cur, "trajectories" >> \notin wrote

\* C23: the solution vector and the solver statistics of a case are written
\* only by the statement that follows its solver call; its motion files and
\* its record of the aggregate store only after the reconstruction, the
\* metrics and the post-solve checks; every artifact is written at most once
\* per case, and no step writes two of them.
C23_WritesFollowTheirComputation == [][WritesInOrder]_vars

\* a case was solved, analysed and all its artifacts written
C23_Witness ==
    /\ pc = "nextcase"
    /\ {<< cur, "w_opt" >>, << cur, "stats" >>, << cur, "motion" >>,
        << cur, "trajectories" >>} \subseteq wrote
    /\ cur \in solved
    /\ cur \in reconstructed

\* a step that changes the aggregate store sets the entry of the current
\* case and no other
StoreSetsOnlyCurrent ==
    store' # store =>
      /\ pc = "store"
      /\ store'[cur].origin = "run"
      /\ \A c \in StoreIds \ {cur} : store'[c] = store[c]

\* the cases whose analysis ran to its end in this run
Analysed ==
    {cases[i] : i \in {h \in 1..Len(cases) :
                         /\ cases[h] \in reconstructed
                         /\ h < ci \/ (h = ci /\ pc \in {"nextcase", "done"})}}

\* with saveOptimalTrajectories on, the store holds this run's record of
\* every analysed case, and what it held for other identifiers is what they
\* held before the run
StoreHoldsAnalysed ==
    /\ sw.saveOptimalTrajectories =>
         \A c \in Analysed : store[c].origin = "run"
    /\ \A c \in StoreIds :
          << c, "trajectories" >> \notin wrote => store[c].origin # "run"

OwnColumns(k) ==
    \A i \in DOMAIN mapped[k] :
       LET c == mapped[k][i].cols
       IN  \/ mapped[k][i].var = "finalTime"
           \/ c = << k, k + 1 >>
           \/ c = << k * nin.d, (k + 1) * nin.d >>

FromRecordAlone(o) ==
    IF o \in DOMAIN caseSettings
      THEN IF o = "knee_axis" THEN << "_", caseSettings[o] >>
                              ELSE caseSettings[o]
      ELSE DefaultSettings[o]

\* a list as its literal gives it, without the mtp joints when the record
\* of the current case turns them off
ListOfCase(full) ==
    IF FromRecordAlone("withMTP")
      THEN full
      ELSE SelectSeq(full, LAMBDA j : j \notin {"mtp_angle_l", "mtp_angle_r"})

\* the lists of the joints section and those of the polynomial section
JointLists ==
    { "joints", "rotationalJoints", "periodicQsJointsA", "periodicQsJointsB",
      "periodicQdsJointsA", "periodicQdsJointsB", "passiveTorqueJoints" }

PolynomialLists == { "leftPolynomialJoints", "rightPolynomialJoints" }

\* the list of that name with the mtp joints in it
FullList(l) ==
    CASE l = "joints" -> joints(TRUE)
      [] l = "rotationalJoints" -> rotationalJoints(TRUE)
      [] l = "periodicQsJointsA" -> periodicQsJointsA(TRUE)
      [] l = "periodicQsJointsB" -> periodicQsJointsB(TRUE)
      [] l = "periodicQdsJointsA" -> periodicQdsJointsA(TRUE)
      [] l = "periodicQdsJointsB" -> periodicQdsJointsB(TRUE)
      [] l = "passiveTorqueJoints" -> passiveTorqueJoints(TRUE)
      [] l = "leftPolynomialJoints" -> leftPolynomialJoints(TRUE)
      [] l = "rightPolynomialJoints" -> rightPolynomialJoints(TRUE)

\* C26: in every case of a run, once the settings section has run, every
\* option variable holds the value of that case's record, or its default
\* when the record lacks the option, and once a list has been built it is
\* the full list, shortened only when that case's record turns the mtp
\* joints off: nothing set or shortened by an earlier case is carried over.
C26_SettingsComeFromTheCaseAlone ==
    /\ spc \in {"muscles", "joints", "polynomials", "end"} =>
          \A o \in Options : conf[o] = FromRecordAlone(o)
    /\ spc \in {"polynomials", "end"} =>
          \A l \in JointLists : lists[l] = ListOfCase(FullList(l))
    /\ spc = "end" =>
          \A l \in PolynomialLists : lists[l] = ListOfCase(FullList(l))

\* a case without any option is set up after a case that set every option
\* and removed the mtp joints
C26_Witness ==
    /\ spc = "end"
    /\ si = 2
    /\ scases[1] = EveryOptionSet
    /\ DOMAIN scases[2] = {"modelMass"}
    /\ conf.withMTP
    /\ Len(lists.joints) = Len(joints(TRUE))

\* whether entry i (1-based) of the bilateral stiffness array belongs to
\* the medial gastrocnemius, lateral gastrocnemius or soleus of a side
IsAchillesEntry(i) ==
    rightSideMuscles[((i - 1) % nSideMuscles) + 1]
        \in {"med_gas_r", "lat_gas_r", "soleus_r"}

\* C27: once the tendon stiffness of a case is set, when the case adjusts
\* the Achilles tendon the entries of the medial gastrocnemius, lateral
\* gastrocnemius and soleus of both sides equal the configured
\* AchillesTendonStiffness and every other entry is 35; when it does not,
\* every entry is 35.
C27_AchillesStiffnessAsConfigured ==
    spc \in {"joints", "polynomials", "end"} =>
      /\ Len(mainTendonStiffness) = nMuscles
      /\ \A i \in 1..nMuscles :
            IF FromRecordAlone("adjustAchillesTendonStiffness")
               /\ IsAchillesEntry(i)
              THEN << mainTendonStiffness[i], 1 >>
                     = caseSettings.AchillesTendonStiffness
              ELSE mainTendonStiffness[i] = 35

\* lines 440-451: the muscle a row of the output of f_polynomial stands for
\* when the function is given the joints of one side: the rows follow
\* 'muscles'; a leg muscle is the one of the side evaluated, a trunk muscle
\* is the one it is named after
muscleOfOutput(side, row) ==
    LET m == muscles[row + 1]
    IN  IF side = "l" /\ m \notin Range(rightTrunkMuscles)
                     /\ m \notin Range(leftTrunkMuscles)
          THEN leftSideMuscles[index(rightSideMuscles, m) + 1]
          ELSE m

\* lines 933-934: vertcat(lMTj_l[leftPolMuscleIdx], lMTj_r[rightPolMuscleIdx])
selectedMuscles ==
    [i \in 1..Len(polIdx.left) |-> muscleOfOutput("l", polIdx.left[i])]
    \o [i \in 1..Len(polIdx.right) |-> muscleOfOutput("r", polIdx.right[i])]

NoDuplicates(list) == Cardinality(Range(list)) = Len(list)

\* C28: once the index lists of a case are built, the right and the left
\* list each have nSideMuscles entries and no entry twice, the left list
\* has no index of a right trunk muscle and the right list none of a left
\* trunk muscle, and the left selection followed by the right selection
\* names the muscles in the order of bothSidesMuscles.
C28_PolynomialIndicesMatchMuscles ==
    spc = "end" =>
      /\ Len(polIdx.right) = nSideMuscles /\ NoDuplicates(polIdx.right)
      /\ Len(polIdx.left) = nSideMuscles /\ NoDuplicates(polIdx.left)
      /\ \A i \in 1..Len(rightTrunkMuscles) :
            index(muscles, rightTrunkMuscles[i]) \notin Range(polIdx.left)
      /\ \A i \in 1..Len(leftTrunkMuscles) :
            index(muscles, leftTrunkMuscles[i]) \notin Range(polIdx.right)
      /\ selectedMuscles = bothSidesMuscles

\* the lists are built, with the left trunk muscles at the end of the left
\* list and the right trunk muscles at the end of the right list
C28_Witness ==
    /\ spc = "end"
    /\ polIdx.left[nSideMuscles] = index(muscles, "extobl_l")
    /\ polIdx.right[nSideMuscles] = index(muscles, "extobl_r")
    /\ selectedMuscles[nSideMuscles] = "extobl_l"

\* the sections that analyse, reconstruct and record w_opt and stats
AnalysisSections ==
    { "extract", "speed", "torque", "heelstrike", "reconstruct", "hill",
      "decompose", "motion", "store" }

\* C29: whenever a case solved in this run is being analysed, the solution
\* and statistics in use are those the solver returned for that case in
\* this run, whatever the saveResults and loadResults switches are.
C29_FreshResultsAreAnalysed ==
    (pc \in AnalysisSections /\ cur \in solved) =>
      mem.origin = "fresh" /\ mem.case = cur

\* the column of the solution array an entry of a gait-cycle array was taken
\* from (the entries of the solution arrays are 100 * (row + 1) + column + 1,
\* the rotational rows of the joint arrays are scaled, some are negated)
SourceColumn(G, r, i, scaled) ==
    LET v == IF scaled /\ r \in Range(idxRotJoints(gin.withMTP))
               THEN Abs(G[r][i]) \div DegPerRadTimesPi
               ELSE Abs(G[r][i])
    IN  (v % 100) - 1

\* the mesh point of a column of a state array, and of a column of a
\* derivative array: collocation node c is the last node of interval
\* (c + 1) / d - 1, which ends at mesh point (c + 1) / d
StateMeshPoint(G, r, i, scaled) == SourceColumn(G, r, i, scaled)

DerivativeMeshPoint(G, r, i, scaled) ==
    (SourceColumn(G, r, i, scaled) + 1) \div gin.d

\* a derivative array indexed by mesh point 0..N: interval k gives mesh point
\* k + 1, and mesh point 0 is mesh point N of the mirrored half
MeshIndexedMuscles(D, N) ==
    [m \in DOMAIN D |->
       [k \in 0..N |-> IF k = 0 THEN D[idxPerMuscles[m + 1]][N - 1]
                                ELSE D[m][k - 1]]]

MeshIndexedJoints(D, g) ==
    LET idxA == idxPerQdsJointsA(g.withMTP)
        idxB == idxPerQdsJointsB(g.withMTP)
        idxO == idxPerOppJoints(g.withMTP)
    IN  [r \in DOMAIN D |->
           [k \in 0..g.N |->
              IF k > 0 THEN D[r][k - 1]
              ELSE IF r \in Range(idxO) THEN -D[r][g.N - 1]
              ELSE D[idxA[CHOOSE h \in DOMAIN idxB : idxB[h] = r]][g.N - 1]]]

\* column i of every family is sample idxIC + 1 + i of the periodic motion
SameInstant ==
    \A i \in 0..(2 * gin.N - 1) :
      LET inst == (gin.idxIC + 1 + i) % gin.N
          js   == joints(gin.withMTP)
      IN  /\ \A r \in 0..(Len(js) - 1) :
                /\ js[r + 1] # "pelvis_tx" =>
                      StateMeshPoint(Qs_GC, r, i, TRUE) % gin.N = inst
                /\ StateMeshPoint(Qds_GC, r, i, TRUE) % gin.N = inst
                /\ DerivativeMeshPoint(Qdds_GC, r, i, TRUE) % gin.N = inst
          /\ \A m \in 0..(nMuscles - 1) :
                /\ StateMeshPoint(A_GC, m, i, FALSE) % gin.N = inst
                /\ StateMeshPoint(F_GC, m, i, FALSE) % gin.N = inst
                /\ DerivativeMeshPoint(FDt_GC, m, i, FALSE) % gin.N = inst
          /\ \A r \in 0..(nArmJoints - 1) :
                StateMeshPoint(aArm_GC, r, i, FALSE) % gin.N = inst

\* the derivative families are what the reconstruction of a state family,
\* cut at idxIC + 1, makes of the same samples indexed by mesh point: the
\* same rows, signs and permutations in every column
SameLabeling ==
    /\ Qdds_GC = ReconstructedVelocity(
                    MeshIndexedJoints(
                      LastCollocation(Qdds_col_opt_nsc(gin), gin.N, gin.d),
                      gin), gin).v
    /\ FDt_GC = ReconstructedState(
                   MeshIndexedMuscles(
                     LastCollocation(normFDt_col_opt_nsc(gin), gin.N, gin.d),
                     gin.N),
                   gin.N, idxIC_s(gin.idxIC), idxPerMuscles, gin.legIC).v

\* C30: in the reconstructed gait cycle, for every heel-strike index and
\* either leg, column i of every state family and of every derivative family
\* holds the sample of the same instant idxIC + 1 + i with the same side
\* labeling, the derivative families being cut at idxIC and the state
\* families at idxIC + 1, and column i of the time grid is i * finalTime / N.
C30_StatesAndDerivativesAligned ==
    gpc = "done" =>
      /\ SameInstant
      /\ SameLabeling
      /\ \A i \in 0..(2 * gin.N - 1) :
            tgrid_GC[i] = RDiv(RMul(R(i, 1), finalTime_opt), R(gin.N, 1))

\* a gait cycle that starts at a left heel strike: the first column holds
\* mesh point idxIC + 1 of the states and interval idxIC of the derivatives
C30_Witness ==
    /\ gpc = "done"
    /\ gin.N = MaxNGC /\ gin.idxIC = 0 /\ gin.legIC = "left"
    /\ StateMeshPoint(A_GC, 0, 0, FALSE) = 1
    /\ SourceColumn(FDt_GC, 0, 0, FALSE) = gin.d - 1
    /\ tgrid_GC[gin.N] = finalTime_opt

====
